---- MODULE Spec2Model ----
(***************************************************************************)
(* The edge proxy of the packaging calculator (workers/api-proxy.js): one  *)
(* fetch handler in front of the OpenRouter chat-completions API, with a   *)
(* client key check, a per-IP request counter and a monthly usage ledger,  *)
(* both kept in the worker's key-value store (env.KV).                     *)
(*                                                                         *)
(* Conventions.  A text is a sequence of tokens (words); String.includes   *)
(* is "holds the phrase as a contiguous run of tokens".  The Russian       *)
(* literals of the source are written in Latin transliteration.  A number  *)
(* kept in the store is the decimal string the code writes (toString) and  *)
(* reads back (parseInt).  Temperatures are in tenths (7 is 0.7).  A       *)
(* header that is not sent is Null, which `${...}` renders as "null".      *)
(*                                                                         *)
(* The browser-side services of the calculator are modelled further down:  *)
(* the key generator of the client cache and the cache itself, the two     *)
(* request clients with their retry loops and the client-side limiter,     *)
(* the monitoring service, and the chat session of the App component.      *)
(* Their state is the variable `browser`.                                  *)
(***************************************************************************)
EXTENDS Integers, Sequences, FiniteSets, TLC

VARIABLES
  KV,        \* env.KV: key -> [value, ttl], ttl in seconds still to live
  month,     \* the calendar month new Date() reads, 1..MaxMonth
  days,      \* the whole days that have passed since the month was first
             \* read
  last,      \* the invocation that ended last, with its outcome (observer)
  admitted,  \* per caller IP: requests let past the rate limiter in the
             \* 60 seconds up to now (observer)
  tally,     \* per month: successful upstream calls and what they reported,
             \* and how long the ledger entry has gone unwritten (observer)
  prev,      \* the exchange before `last` (observer, SpecRepeat only)
  steps,     \* arrivals and passings of time so far (bounded runs only)
  inflight,  \* per invocation of the handler: where it stands and its
             \* local variables
  recent,    \* the caller's requests of the last 60 seconds: how long ago
             \* each arrived and whether it was admitted (observer,
             \* SpecSteady only)
  overlapped, \* an invocation has started while another was under way
             \* (observer)
  exceeded,  \* the caller IPs whose stored count has been above the limit
             \* and has not expired since (observer)
  browser    \* the state of the browser-side services (the client cache's
             \* key generator, the two request clients, the monitoring
             \* service); the proxy never reads it

vars == <<KV, month, days, last, admitted, tally, prev, steps, inflight,
          recent, overlapped, exceeded, browser>>

\* the variables of the worker and its observers
worker == <<KV, month, days, last, admitted, tally, prev, steps, inflight,
            recent, overlapped, exceeded>>

-----------------------------------------------------------------------------
(* Bounds of the model *)

MaxSteps == 3
MaxArrivals == 2
MaxBurst == 4
MaxMonth == 2
LongStep == 15
MaxDays == 30
MaxOkCalls == 2
MaxInvocations == 2
TickStep == 60
ShortStep == 30
MaxThrough == 3
ClockStep == 10
MaxLogCalls == 2
MaxFlushes == 2
StartTime == 60000
MaxTicks == 3
MaxCalls == 2
MaxCacheCalls == 3
ShortTtl == 1800000

(* Constants of the program *)

RateLimit == 100
RateTtl == 60
UsageTtl == 2592000
DefaultTemperature == 7
MaxTokens == 4000
RetryAttempts == 3
RetryDelay == 1000
MaxRequestsPerMinute == 100
MaxLogs == 1000
MaxMetrics == 500
BatchSize == 10
maxSize == 100
DefaultTtl == 3600000
MaxStringLength == 10000

-----------------------------------------------------------------------------
(* Values *)

Null == "<null>"
EmptyText == <<>>

\* `${value}` of a template literal
Str(v) == IF v = Null THEN "null" ELSE v

\* String.includes on token sequences
includes(text, phrase) ==
  \E i \in 0..(Len(text) - Len(phrase)) :
    \A j \in 1..Len(phrase) : text[i + j] = phrase[j]

Digit == <<"0", "1", "2", "3", "4", "5", "6", "7", "8", "9">>

RECURSIVE toString(_)
toString(n) ==
  IF n < 10 THEN <<Digit[n + 1]>>
  ELSE toString(n \div 10) \o <<Digit[(n % 10) + 1]>>

DigitValue(d) == CHOOSE v \in 0..9 : Digit[v + 1] = d

RECURSIVE parseInt(_)
parseInt(s) ==
  IF Len(s) = 1 THEN DigitValue(s[1])
  ELSE 10 * parseInt(SubSeq(s, 1, Len(s) - 1)) + DigitValue(s[Len(s)])

-----------------------------------------------------------------------------
(* env.KV *)

KVhas(store, key) == key \in DOMAIN store

\* a put that leaves the expiry of an entry already there as it is
KVputKeepingExpiry(store, key, value, expirationTtl) ==
  [k \in (DOMAIN store) \cup {key} |->
     IF k = key
     THEN [value |-> value,
           ttl |-> IF key \in DOMAIN store THEN store[key].ttl
                   ELSE expirationTtl]
     ELSE store[k]]

KVput(store, key, value, expirationTtl) ==
  [k \in (DOMAIN store) \cup {key} |->
     IF k = key THEN [value |-> value, ttl |-> expirationTtl] ELSE store[k]]

\* the store after `seconds`: an entry is gone once its ttl has run out
KVafter(store, seconds) ==
  [k \in {x \in DOMAIN store : store[x].ttl > seconds} |->
     [value |-> store[k].value, ttl |-> store[k].ttl - seconds]]

rateLimitKey(clientIP) == <<"rate_limit", Str(clientIP)>>

usageKey(m) == <<"usage", toString(m)>>

\* currentRequests ? parseInt(currentRequests) : 0
requestCount(store, clientIP) ==
  IF KVhas(store, rateLimitKey(clientIP))
  THEN parseInt(store[rateLimitKey(clientIP)].value)
  ELSE 0

-----------------------------------------------------------------------------
(* The request, the upstream provider's answer, the proxy's response *)

Secret == "client-key"

ModelHaiku == "anthropic/claude-3-haiku"
ModelSonnet == "anthropic/claude-3-5-sonnet"

\* the one system message the handler sends (line 69)
SystemPromptDefault == "assistant-for-packaging-cost-in-russian"

\* if (!clientApiKey || clientApiKey !== env.CLIENT_API_KEY)
UnauthorizedKeyMissingOnly(clientApiKey) == clientApiKey = Null

Unauthorized(clientApiKey) ==
  clientApiKey = Null \/ clientApiKey = "" \/ clientApiKey # Secret

\* if (requestCount > 100)
RateLimitExceededLate(count) == count > RateLimit + 1

RateLimitExceeded(count) == count > RateLimit

\* let model = ...; if (modelPath.includes(...)) ...
selectModel(modelPath) ==
  IF includes(modelPath, <<"claude-3-5-sonnet">>) THEN ModelSonnet
  ELSE IF includes(modelPath, <<"claude-3-haiku">>) THEN ModelHaiku
  ELSE ModelHaiku

\* requestBody.contents?.[0]?.parts?.[0]?.text || ''
userContent(requestBody) ==
  IF requestBody.hasContents
     /\ Len(requestBody.contents) >= 1
     /\ Len(requestBody.contents[1]) >= 1
  THEN requestBody.contents[1][1]
  ELSE EmptyText

\* requestBody.generationConfig?.temperature || 0.7
temperatureOf(requestBody) ==
  IF requestBody.hasTemperature /\ requestBody.temperature # 0
  THEN requestBody.temperature
  ELSE DefaultTemperature

openRouterBody(modelPath, requestBody) ==
  [model |-> selectModel(modelPath),
   system |-> SystemPromptDefault,
   user |-> userContent(requestBody),
   temperature |-> temperatureOf(requestBody),
   max_tokens |-> MaxTokens]

NoCall == [model |-> "none"]

\* response.ok
ok(status) == status >= 200 /\ status <= 299

\* let errorMessage = ...
errorMessage(status) ==
  IF status = 401 THEN "openrouter-authorization-error"
  ELSE IF status = 402 THEN "openrouter-insufficient-funds"
  ELSE IF status = 429 THEN "openrouter-rate-limit"
  ELSE "api-error"

\* x || 0 for a counter the upstream may leave out
orZero(has, n) == IF has THEN n ELSE 0

\* const geminiResponse = {...}
geminiResponseSwapped(responseData) ==
  [text |-> IF responseData.hasContent THEN responseData.content ELSE EmptyText,
   promptTokenCount |->
     orZero(responseData.hasUsage /\ responseData.hasCompletion,
            responseData.completion_tokens),
   candidatesTokenCount |->
     orZero(responseData.hasUsage /\ responseData.hasPrompt,
            responseData.prompt_tokens)]

geminiResponseStale(responseData) ==
  [text |-> <<"[{productType:Korobka}]">>,
   promptTokenCount |->
     orZero(responseData.hasUsage /\ responseData.hasPrompt,
            responseData.prompt_tokens),
   candidatesTokenCount |->
     orZero(responseData.hasUsage /\ responseData.hasCompletion,
            responseData.completion_tokens)]

geminiResponse(responseData) ==
  [text |-> IF responseData.hasContent THEN responseData.content ELSE EmptyText,
   promptTokenCount |->
     orZero(responseData.hasUsage /\ responseData.hasPrompt,
            responseData.prompt_tokens),
   candidatesTokenCount |->
     orZero(responseData.hasUsage /\ responseData.hasCompletion,
            responseData.completion_tokens)]

\* const tokenUsage = {...}: only totalTokens is used afterwards
tokenUsage(responseData) ==
  [totalTokens |->
     orZero(responseData.hasPrompt, responseData.prompt_tokens)
     + orZero(responseData.hasCompletion, responseData.completion_tokens)]

\* JSON.stringify / JSON.parse of the ledger entry
stringifyUsage(usage) ==
  [totalTokens |-> toString(usage.totalTokens),
   requests |-> toString(usage.requests)]

parseUsage(json) ==
  [totalTokens |-> parseInt(json.totalTokens),
   requests |-> parseInt(json.requests)]

\* existingUsage ? JSON.parse(existingUsage) : { totalTokens: 0, requests: 0 }
existingUsage(store, m) ==
  IF KVhas(store, usageKey(m)) THEN parseUsage(store[usageKey(m)].value)
  ELSE [totalTokens |-> 0, requests |-> 0]

\* usageData.totalTokens += ...; usageData.requests += 1
usageDataOverwritten(existing, usage) ==
  [totalTokens |-> usage.totalTokens, requests |-> existing.requests + 1]

usageData(existing, usage) ==
  [totalTokens |-> existing.totalTokens + usage.totalTokens,
   requests |-> existing.requests + 1]

(* Responses *)

PreflightResponse == [status |-> 200, kind |-> "empty"]
TextResponse(status, text) == [status |-> status, kind |-> "text", text |-> text]
ErrorResponseMasked(status, details) ==
  [status |-> 500, kind |-> "error", code |-> 500,
   message |-> errorMessage(status), details |-> details]

ErrorResponse(status, details) ==
  [status |-> status, kind |-> "error", code |-> status,
   message |-> errorMessage(status), details |-> details]
GeminiResponse(status, body) ==
  [status |-> status, kind |-> "gemini", text |-> body.text,
   promptTokenCount |-> body.promptTokenCount,
   candidatesTokenCount |-> body.candidatesTokenCount]

\* an exception nothing in the handler catches: the runtime answers for it
UncaughtResponse == [status |-> 500, kind |-> "uncaught"]

\* what env.KV does during one run: it works, or one of its four calls throws
KVFaults == {"none", "get-rate", "put-rate", "get-usage", "put-usage"}

\* const response = await fetch(openRouterRequest): the calls it makes
upstreamClientRetrying(up) ==
  IF up.net = "error" \/ up.status >= 500
  THEN <<"UpstreamClient", "UpstreamClient">>
  ELSE <<"UpstreamClient">>

upstreamClient(up) == <<"UpstreamClient">>

\* the upstream's answer while no call has been made
UpstreamDown ==
  [net |-> "error", status |-> 0, json |-> "invalid",
   hasContent |-> FALSE, content |-> EmptyText, hasUsage |-> FALSE,
   hasPrompt |-> FALSE, prompt_tokens |-> 0,
   hasCompletion |-> FALSE, completion_tokens |-> 0]

(* One invocation of the handler.  The handler gives way to other           *)
(* invocations, and time passes, at each of its awaits: env.KV.get (line    *)
(* 31), env.KV.put (42), request.json() (52), fetch (91), response.json()   *)
(* (95 or 122), env.KV.get (151) and env.KV.put (157).  An invocation is    *)
(* the record of the await it stands at, `pc`, and its locals: the request, *)
(* the count read at line 31, the body sent upstream and the answer, the    *)
(* month of usageKey (line 150) and the ledger entry read at line 151, its  *)
(* response.  `kv` says how env.KV behaves for it; `passed` (it wrote the   *)
(* counter), `calledIn` (the month in which it called the upstream),        *)
(* `okCall` (it answers with the upstream's output), `stages` (the stages   *)
(* it ran, in order), `wrote` (it wrote the ledger) and `raced` (the ledger *)
(* entry was rewritten between its read and its write) are kept for the     *)
(* observers.                                                               *)
NotStarted ==
  [pc |-> "start",
   request |-> [method |-> "OPTIONS", apiKey |-> Null, clientIP |-> Null,
                path |-> <<>>,
                body |-> [json |-> "invalid", hasContents |-> FALSE,
                          contents |-> <<>>, hasTemperature |-> FALSE,
                          temperature |-> 0]],
   kv |-> "none", count |-> 0, passed |-> FALSE, up |-> UpstreamDown,
   sent |-> NoCall, calledIn |-> 1, m |-> 1,
   existing |-> [totalTokens |-> 0, requests |-> 0],
   raced |-> FALSE, wrote |-> FALSE, over |-> FALSE, okCall |-> FALSE, stages |-> <<>>,
   response |-> PreflightResponse]

\* async fetch(request, env, ctx) from its start to the await of line 31:
\* the preflight answer, the key check, the read of the caller's counter
fetch(request, store, kv) ==
  LET inv == [NotStarted EXCEPT !.request = request, !.kv = kv]
  IN
  IF request.method = "OPTIONS"
  THEN [inv EXCEPT !.pc = "done", !.response = PreflightResponse]
  ELSE IF Unauthorized(request.apiKey)
  THEN [inv EXCEPT !.pc = "done", !.stages = <<"Authenticator">>,
                   !.response = TextResponse(401, "Unauthorized")]
  ELSE IF kv = "get-rate"
  THEN \* env.KV.get throws outside the try block
       [inv EXCEPT !.pc = "done",
                   !.stages = <<"Authenticator", "RateLimiter">>,
                   !.response = UncaughtResponse]
  ELSE [inv EXCEPT !.pc = "count-read",
                   !.stages = <<"Authenticator", "RateLimiter">>,
                   !.count = requestCount(store, request.clientIP)]

\* the store once the limiter has decided on the count read (lines 32-44):
\* as it was for a request it rejects, the count read plus one with a new
\* expiry for one it admits
afterLimiterCounting(store, clientIP, count) ==
  KVput(store, rateLimitKey(clientIP), toString(count + 1), RateTtl)

afterLimiter(store, clientIP, count) ==
  IF RateLimitExceeded(count) THEN store
  ELSE KVput(store, rateLimitKey(clientIP), toString(count + 1), RateTtl)

\* the invocation once the limiter has decided (lines 32-44)
limiter(inv) ==
  IF RateLimitExceeded(inv.count)
  THEN [inv EXCEPT !.pc = "done",
                   !.response = TextResponse(429, "Rate limit exceeded")]
  ELSE IF inv.kv = "put-rate"
  THEN \* env.KV.put throws outside the try block
       [inv EXCEPT !.pc = "done", !.response = UncaughtResponse]
  ELSE [inv EXCEPT !.pc = "admitted", !.passed = TRUE]

\* lines 46-52: the try block is entered with the counter written, and the
\* body of the request is awaited
requestJson(inv) ==
  [inv EXCEPT !.pc = "body", !.stages = @ \o <<"RequestParsing">>]

\* lines 52-91: the body is in; the model is chosen, the upstream request
\* built and sent in the month m.  A body that does not parse, or parses to
\* null, throws before the call: the catch answers
openRouterRequest(inv, m) ==
  LET error == TextResponse(500, "Internal Server Error")
  IN
  IF inv.request.body.json = "invalid"
  THEN [inv EXCEPT !.pc = "done", !.response = error]
  ELSE IF inv.request.body.json # "object"
  THEN [inv EXCEPT !.pc = "done", !.response = error,
                   !.stages = @ \o <<"ModelRouter">>]
  ELSE [inv EXCEPT !.pc = "upstream",
                   !.sent = openRouterBody(inv.request.path, inv.request.body),
                   !.calledIn = m,
                   !.stages = @ \o <<"ModelRouter">>]

\* lines 91-95 and 91-122: fetch has settled as `up`; a rejection goes to the
\* catch, any other outcome has its body awaited
upstreamResponse(inv, up) ==
  LET called == [inv EXCEPT !.up = up, !.stages = @ \o upstreamClient(up)]
  IN
  IF up.net = "error"
  THEN [called EXCEPT !.pc = "done",
                      !.response = TextResponse(500, "Internal Server Error")]
  ELSE IF ~ok(up.status)
  THEN [called EXCEPT !.pc = "error-body"]
  ELSE [called EXCEPT !.pc = "answer-body"]

\* lines 95-119: the body of an upstream error is in (`{}` when it does not
\* parse) and goes into the error response.  new Response(body, {status})
\* throws for a status that allows no body (101, 204, 205, 304) and for one
\* outside 200..599, inside the try block: the catch answers
errorData(inv) ==
  LET nullBodyStatus == inv.up.status \in {101, 204, 205, 304}
      inRange == inv.up.status >= 200 /\ inv.up.status <= 599
  IN
  IF nullBodyStatus \/ ~inRange
  THEN [inv EXCEPT !.pc = "done",
                   !.response = TextResponse(500, "Internal Server Error")]
  ELSE [inv EXCEPT !.pc = "done",
                   !.response = ErrorResponse(inv.up.status,
                                              IF inv.up.json = "invalid"
                                              THEN "{}" ELSE inv.up.json)]

\* lines 122-151: the body of the upstream's answer is in, in the month m.
\* One that is no object goes to the catch, one without usage is answered;
\* otherwise usageKey is made from the date of now and the ledger entry read
responseJson(inv, store, m) ==
  LET error == TextResponse(500, "Internal Server Error")
  IN
  IF inv.up.json # "object"
  THEN [inv EXCEPT !.pc = "done", !.response = error]
  ELSE IF ~inv.up.hasUsage
  THEN [inv EXCEPT !.pc = "done", !.okCall = TRUE,
                   !.response = GeminiResponse(inv.up.status,
                                               geminiResponse(inv.up))]
  ELSE IF inv.kv = "get-usage"
  THEN \* env.KV.get throws inside the try block: the catch answers
       [inv EXCEPT !.pc = "done", !.response = error,
                   !.stages = @ \o <<"UsageRecorder">>]
  ELSE [inv EXCEPT !.pc = "usage-read", !.m = m,
                   !.stages = @ \o <<"UsageRecorder">>,
                   !.existing = existingUsage(store, m)]

\* the ledger entry the update at lines 154-155 starts from: the one read at
\* line 151, whatever the store holds by the time of line 157
usageDataReadAgain(existing, store, m) == existingUsage(store, m)

usageDataRead(existing, store, m) == existing

\* a handler that also keeps the answer of every call with a usage block
recordUsageAndAnswer(store, m, existing, responseData) ==
  KVput(KVput(store, usageKey(m),
              stringifyUsage(usageData(usageDataRead(existing, store, m),
                                       tokenUsage(responseData))),
              UsageTtl),
        <<"cache", "answer">>, "payload", UsageTtl)

\* the store after the update of the entry read and its write (lines
\* 152-159)
recordUsage(store, m, existing, responseData) ==
  KVput(store, usageKey(m),
        stringifyUsage(usageData(usageDataRead(existing, store, m),
                                 tokenUsage(responseData))),
        UsageTtl)

\* the invocation once the entry read is updated and its write issued
\* (lines 152-157)
usagePut(inv) ==
  IF inv.kv = "put-usage"
  THEN \* env.KV.put throws inside the try block: the catch answers
       [inv EXCEPT !.pc = "done",
                   !.response = TextResponse(500, "Internal Server Error")]
  ELSE [inv EXCEPT !.pc = "usage-written", !.wrote = TRUE]

\* the invocation once the write of line 157 is through: the response of
\* lines 162-168
usageWritten(inv) ==
  [inv EXCEPT !.pc = "done", !.okCall = TRUE,
              !.response = GeminiResponse(inv.up.status,
                                          geminiResponse(inv.up))]

\* upstream calls the run made
calls(stages) ==
  Cardinality({i \in DOMAIN stages : stages[i] = "UpstreamClient"})

-----------------------------------------------------------------------------
(* The inputs the handler is run on *)

TextHello == <<"Privet">>
TextExtract == <<"Izvleki", "parametry", "zakaza">>
TextCost == <<"rasschitaj", "stoimost", "korobki">>
TextExtractAndCost == <<"rasschitaj", "stoimost", "Izvleki", "parametry">>

AnswerA == <<"[{productType:Korobka}]">>
AnswerB == <<"Stoimost", "120">>

PathRoot == <<>>
PathHealth == <<"health">>
PathHaiku == <<"v1beta", "models", "claude-3-haiku", ":generateContent">>
PathSonnet == <<"v1beta", "models", "claude-3-5-sonnet", ":generateContent">>

CallerIP == "203.0.113.7"

\* a request body: what request.json() gives
BodyUnparsable ==
  [json |-> "invalid", hasContents |-> FALSE, contents |-> <<>>,
   hasTemperature |-> FALSE, temperature |-> 0]
BodyNull == [BodyUnparsable EXCEPT !.json = "null"]
BodyObject(hasContents, contents, hasTemperature, temperature) ==
  [json |-> "object", hasContents |-> hasContents, contents |-> contents,
   hasTemperature |-> hasTemperature, temperature |-> temperature]
\* { contents: [ { parts: [ { text } ] } ] }, with or without a temperature
BodyText(text) == BodyObject(TRUE, <<(<<text>>)>>, FALSE, 0)
BodyTextAt(text, temperature) == BodyObject(TRUE, <<(<<text>>)>>, TRUE, temperature)
BodyNoContents == BodyObject(FALSE, <<>>, FALSE, 0)
BodyEmptyContents == BodyObject(TRUE, <<>>, FALSE, 0)
BodyElevenContents == BodyObject(TRUE, [i \in 1..11 |-> <<TextHello>>], FALSE, 0)

Request(method, apiKey, path, body) ==
  [method |-> method, apiKey |-> apiKey, clientIP |-> CallerIP,
   path |-> path, body |-> body]

\* what the upstream provider does with a call
UpstreamError(status, json) ==
  [UpstreamDown EXCEPT !.net = "ok", !.status = status, !.json = json]
UpstreamAnswer(content, prompt_tokens, completion_tokens) ==
  [net |-> "ok", status |-> 200, json |-> "object",
   hasContent |-> TRUE, content |-> content, hasUsage |-> TRUE,
   hasPrompt |-> TRUE, prompt_tokens |-> prompt_tokens,
   hasCompletion |-> TRUE, completion_tokens |-> completion_tokens]
UpstreamAnswerNoUsage(content) ==
  [UpstreamAnswer(content, 0, 0) EXCEPT
     !.hasUsage = FALSE, !.hasPrompt = FALSE, !.hasCompletion = FALSE]

Bodies ==
  {BodyUnparsable, BodyNull, BodyNoContents, BodyEmptyContents,
   BodyElevenContents, BodyText(TextHello), BodyTextAt(TextExtract, 1),
   BodyTextAt(TextExtract, 8), BodyTextAt(TextCost, 0)}

Requests ==
  {Request("OPTIONS", k, PathHaiku, BodyUnparsable) : k \in {Null, Secret}}
  \cup {Request("GET", k, PathHealth, BodyUnparsable) : k \in {Null, Secret}}
  \cup {Request("POST", k, PathHaiku, BodyText(TextHello)) :
          k \in {Null, "", "other-key"}}
  \cup {Request("POST", Null, PathHaiku, BodyNoContents)}
  \cup {Request("POST", Secret, PathHaiku, b) : b \in Bodies}
  \cup {Request("POST", Secret, PathSonnet, BodyText(t)) :
          t \in {TextExtract, TextExtractAndCost}}

Upstreams ==
  {UpstreamDown,
   UpstreamError(401, "object"), UpstreamError(402, "invalid"),
   UpstreamError(429, "object"), UpstreamError(500, "null"),
   UpstreamError(304, "invalid"),
   UpstreamError(200, "invalid"), UpstreamError(200, "null"),
   UpstreamAnswer(AnswerA, 50, 10), UpstreamAnswer(AnswerB, 7, 0),
   UpstreamAnswerNoUsage(AnswerA),
   [UpstreamAnswer(EmptyText, 0, 3) EXCEPT !.hasContent = FALSE,
                                           !.hasPrompt = FALSE]}

\* the rate limiter alone: one well-formed request, with and without a key
RateRequests ==
  {Request("POST", k, PathHaiku, BodyText(TextHello)) : k \in {Secret, "other-key"}}
  \cup {Request("OPTIONS", Null, PathHaiku, BodyUnparsable),
        Request("POST", Secret, PathHaiku, BodyUnparsable)}

RateUpstreams == {UpstreamDown, UpstreamError(429, "object")}

\* repeats of one request: an extraction at temperature 0.1 and at 0.8
RepeatRequests ==
  {Request("POST", Secret, PathHaiku, BodyTextAt(TextExtract, t)) : t \in {1, 8}}
  \cup {Request("POST", Secret, PathHaiku, BodyTextAt(TextHello, 8))}

RepeatUpstreams ==
  {UpstreamDown, UpstreamAnswer(AnswerA, 50, 10), UpstreamAnswer(AnswerB, 7, 0)}

-----------------------------------------------------------------------------
(* State *)

ClientIPs == {CallerIP, Null}
Months == 1..MaxMonth

NoExchange == [handled |-> FALSE]

\* the invocations of the handler that may run at the same time, told apart
\* by the slot they take
Invocations == 1..MaxInvocations

\* no browser-side service is running
NoBrowser == [service |-> "none"]

\* nothing counted for a month: `idle` are the seconds since the ledger
\* entry of the month was written last (since the first call with usage was
\* counted, before its write), no more than UsageTtl of them told apart;
\* `lapsed` says that a call with usage was counted when the entry had gone
\* unwritten for UsageTtl seconds
NoTally ==
  [okCalls |-> 0, withUsage |-> 0, tokens |-> 0, idle |-> 0, lapsed |-> FALSE]

\* the tokens a successful upstream call reports
reported(up) ==
  IF up.hasUsage
  THEN (IF up.hasPrompt THEN up.prompt_tokens ELSE 0)
       + (IF up.hasCompletion THEN up.completion_tokens ELSE 0)
  ELSE 0

\* the worker as deployed: an empty store, nothing handled
WorkerInit ==
  /\ KV = <<>>
  /\ month = 1
  /\ days = 0
  /\ last = NoExchange
  /\ admitted = [ip \in ClientIPs |-> 0]
  /\ tally = [m \in Months |-> NoTally]
  /\ prev = NoExchange
  /\ steps = 0
  /\ inflight = [p \in Invocations |-> NotStarted]
  /\ recent = <<>>
  /\ overlapped = FALSE
  /\ exceeded = {}

Init == WorkerInit /\ browser = NoBrowser

\* an invocation that has ended, as the observers see it: `before` is the
\* count it read, `calls` the upstream calls it made, `over` whether it
\* arrived while the stored count of its caller had exceeded the limit
Exchange(inv) ==
  [handled |-> TRUE,
   request |-> inv.request,
   kv |-> inv.kv,
   stages |-> inv.stages,
   up |-> inv.up,
   response |-> inv.response,
   sent |-> inv.sent,
   calls |-> calls(inv.stages),
   okCall |-> inv.okCall,
   before |-> inv.count,
   passed |-> inv.passed,
   calledIn |-> inv.calledIn,
   m |-> inv.m,
   wrote |-> inv.wrote,
   raced |-> inv.raced,
   over |-> inv.over]

\* the invocation is under way: it has started and not yet answered
running(inv) == inv.pc \notin {"start", "done"}

\* invocation p goes on as `inv`: one that has ended gives up its slot and
\* is the exchange handled last
Continue(p, inv) ==
  /\ inflight' = [inflight EXCEPT ![p] =
                    IF inv.pc = "done" THEN NotStarted ELSE inv]
  /\ last' = IF inv.pc = "done" THEN Exchange(inv) ELSE last

\* the upstream call of `inv` has succeeded (a 2xx answer whose body is an
\* object): it is counted for the month m in which its answer is in, the
\* month of usageKey (line 150)
Succeeded(inv, m) ==
  [tally EXCEPT ![m] =
     [okCalls |-> @.okCalls + 1,
      withUsage |-> @.withUsage + (IF inv.up.hasUsage THEN 1 ELSE 0),
      tokens |-> @.tokens + reported(inv.up),
      idle |-> @.idle,
      lapsed |-> @.lapsed \/ (/\ inv.up.hasUsage
                              /\ @.withUsage > 0
                              /\ @.idle >= UsageTtl)]]

\* the ledger entry of the month m is written
Written(m) == [tally EXCEPT ![m].idle = 0]

\* `seconds` pass for the months a call with usage was counted for
Aged(seconds) ==
  [m \in Months |->
     IF tally[m].withUsage = 0 THEN tally[m]
     ELSE [tally[m] EXCEPT !.idle = IF @ + seconds > UsageTtl THEN UsageTtl
                                    ELSE @ + seconds]]

\* invocation p has ended with the step taken
Ended(p) == inflight'[p].pc = "start"

\* the callers whose count in `store` is above the limit, or was above it
\* before and has not expired
Exceeding(store) ==
  {ip \in ClientIPs :
     \/ requestCount(store, ip) > RateLimit
     \/ (ip \in exceeded /\ KVhas(store, rateLimitKey(ip)))}

\* a request arrives while env.KV behaves as `kv` for it, and its invocation
\* runs up to the await of line 31 (or to its response); it takes the first
\* slot that is free
ReadCount(p, request, kv) ==
  /\ ~running(inflight[p])
  /\ \A q \in Invocations : q < p => running(inflight[q])
  /\ \E inv \in {[fetch(request, KV, kv) EXCEPT
                    !.over = request.clientIP \in exceeded]} :
       Continue(p, inv)
  /\ overlapped' = (overlapped \/ \E q \in Invocations : running(inflight[q]))
  /\ UNCHANGED <<KV, month, days, admitted, tally, exceeded>>

\* lines 32-44: the limit test on the count read, then await
\* env.KV.put(rateLimitKey, ...)
WriteCount(p) ==
  /\ inflight[p].pc = "count-read"
  /\ \E inv \in {limiter(inflight[p])} :
       /\ Continue(p, inv)
       /\ admitted' = IF inv.passed
                      THEN [admitted EXCEPT ![inv.request.clientIP] = @ + 1]
                      ELSE admitted
  /\ KV' = IF inflight[p].kv = "put-rate" THEN KV
           ELSE afterLimiter(KV, inflight[p].request.clientIP,
                             inflight[p].count)
  /\ exceeded' = Exceeding(KV')
  /\ UNCHANGED <<month, days, tally, overlapped>>

\* what the try block leaves alone but for the store and the tally
Shared == UNCHANGED <<month, days, admitted, overlapped, exceeded>>

\* the put of line 42 is through: lines 46-52, up to await request.json()
ReadBody(p) ==
  /\ inflight[p].pc = "admitted"
  /\ \E inv \in {requestJson(inflight[p])} : Continue(p, inv)
  /\ Shared /\ UNCHANGED <<KV, tally>>

\* the body of the request is in: lines 52-91, up to await
\* fetch(openRouterRequest); a body that is no object ends the invocation
CallUpstream(p) ==
  /\ inflight[p].pc = "body"
  /\ \E inv \in {openRouterRequest(inflight[p], month)} : Continue(p, inv)
  /\ Shared /\ UNCHANGED <<KV, tally>>

\* the upstream call settles as `up`: a rejection ends the invocation,
\* otherwise await response.json() (line 95 or 122)
ReadStatus(p, up) ==
  /\ inflight[p].pc = "upstream"
  /\ \E inv \in {upstreamResponse(inflight[p], up)} : Continue(p, inv)
  /\ Shared /\ UNCHANGED <<KV, tally>>

\* the body of an upstream error is in: the error response of lines 107-119
ReadError(p) ==
  /\ inflight[p].pc = "error-body"
  /\ \E inv \in {errorData(inflight[p])} : Continue(p, inv)
  /\ Shared /\ UNCHANGED <<KV, tally>>

\* the body of the upstream's answer is in: lines 122-151, up to await
\* env.KV.get(usageKey), the month of the key being the month of now; an
\* answer without usage ends the invocation
ReadUsage(p) ==
  /\ inflight[p].pc = "answer-body"
  /\ \E inv \in {responseJson(inflight[p], KV, month)} : Continue(p, inv)
  /\ tally' = IF inflight[p].up.json = "object"
              THEN Succeeded(inflight[p], month)
              ELSE tally
  /\ Shared /\ UNCHANGED KV

\* the entry is in: lines 152-157, its update and await
\* env.KV.put(usageKey, ...)
WriteUsage(p) ==
  /\ inflight[p].pc = "usage-read"
  /\ \E inv \in {[usagePut(inflight[p]) EXCEPT
                    !.raced = existingUsage(KV, inflight[p].m)
                                # inflight[p].existing]} :
       Continue(p, inv)
  /\ KV' = IF inflight[p].kv = "put-usage" THEN KV
           ELSE recordUsage(KV, inflight[p].m, inflight[p].existing,
                            inflight[p].up)
  /\ tally' = IF inflight[p].kv = "put-usage" THEN tally
              ELSE Written(inflight[p].m)
  /\ Shared

\* the put of line 157 is through: the response of lines 162-168
Respond(p) ==
  /\ inflight[p].pc = "usage-written"
  /\ \E inv \in {usageWritten(inflight[p])} : Continue(p, inv)
  /\ Shared /\ UNCHANGED <<KV, tally>>

\* TickStep seconds pass
Tick ==
  /\ KV' = KVafter(KV, TickStep)
  /\ admitted' = [ip \in ClientIPs |-> 0]
  /\ exceeded' = Exceeding(KV')
  /\ tally' = Aged(TickStep)
  /\ UNCHANGED <<month, days, last, inflight, overlapped>>

\* TickStep seconds pass and the calendar month changes
NextMonth ==
  /\ month < MaxMonth
  /\ month' = month + 1
  /\ days' = 0
  /\ KV' = KVafter(KV, TickStep)
  /\ admitted' = [ip \in ClientIPs |-> 0]
  /\ exceeded' = Exceeding(KV')
  /\ tally' = Aged(TickStep)
  /\ UNCHANGED <<last, inflight, overlapped>>

\* LongStep days pass within the calendar month, none of them while an
\* invocation is under way: no two instants of one month are more than
\* MaxDays days apart
DaysPass ==
  /\ days + LongStep <= MaxDays
  /\ \A p \in Invocations : ~running(inflight[p])
  /\ days' = days + LongStep
  /\ KV' = KVafter(KV, LongStep * 86400)
  /\ admitted' = [ip \in ClientIPs |-> 0]
  /\ exceeded' = Exceeding(KV')
  /\ tally' = Aged(LongStep * 86400)
  /\ UNCHANGED <<month, last, inflight, overlapped>>

\* one more arrival or passing of time in a run of at most `max` of them
CountedTo(max) == steps < max /\ steps' = steps + 1

Counted == CountedTo(MaxSteps)

\* what the steps of the handler leave alone
Aside == UNCHANGED <<prev, steps, recent, browser>>

\* runs of at most MaxArrivals arrivals and passings of time over every kind
\* of request, the invocations interleaved in every way
Next ==
  \/ \E p \in Invocations, request \in Requests :
       CountedTo(MaxArrivals) /\ ReadCount(p, request, "none")
         /\ UNCHANGED <<prev, recent, browser>>
  \/ \E p \in Invocations : WriteCount(p) /\ Aside
  \/ \E p \in Invocations : ReadBody(p) /\ Aside
  \/ \E p \in Invocations : CallUpstream(p) /\ Aside
  \/ \E p \in Invocations, up \in Upstreams : ReadStatus(p, up) /\ Aside
  \/ \E p \in Invocations : ReadError(p) /\ Aside
  \/ \E p \in Invocations : ReadUsage(p) /\ Aside
  \/ \E p \in Invocations : WriteUsage(p) /\ Aside
  \/ \E p \in Invocations : Respond(p) /\ Aside
  \/ CountedTo(MaxArrivals) /\ Tick /\ UNCHANGED <<prev, recent, browser>>
  \/ CountedTo(MaxArrivals) /\ NextMonth
       /\ UNCHANGED <<prev, recent, browser>>

Spec == Init /\ [][Next]_vars

\* a request of the caller `ip` that carries the key and a well-formed body
Plain(ip) ==
  [Request("POST", Secret, PathHaiku, BodyText(TextHello)) EXCEPT
     !.clientIP = ip]

\* the worker after n >= 2 requests Plain(ip) were handled one after the
\* other, the upstream down, the last of them in the instant now: each was
\* admitted, the last one read n - 1 and stored n with the full time to
\* live; `inWindow` of them came within the last 60 seconds and `noted` is
\* what `recent` holds of them
Seeded(ip, n, inWindow, noted) ==
  LET before == KVput(<<>>, rateLimitKey(ip), toString(n - 1), RateTtl)
      after == afterLimiter(before, ip, n - 1)
      inv == upstreamResponse(
               openRouterRequest(
                 requestJson(limiter(fetch(Plain(ip), before, "none"))), 1),
               UpstreamDown)
  IN  /\ KV = after
      /\ month = 1
      /\ days = 0
      /\ last = Exchange(inv)
      /\ admitted = [i \in ClientIPs |-> IF i = ip THEN inWindow ELSE 0]
      /\ tally = [m \in Months |-> NoTally]
      /\ prev = NoExchange
      /\ steps = 0
      /\ inflight = [p \in Invocations |-> NotStarted]
      /\ recent = noted
      /\ overlapped = FALSE
      /\ exceeded = {}

\* how many requests came before a run of the limiter: none, or one less
\* than the limit
RateSeeds == {0, RateLimit - 1}

\* the worker a run of the limiter starts from
InitSeeded(ip) ==
  /\ \E n \in RateSeeds : IF n = 0 THEN WorkerInit ELSE Seeded(ip, n, n, <<>>)
  /\ browser = NoBrowser

\* runs of at most MaxBurst further arrivals over the requests that exercise
\* the rate limiter
NextRate ==
  \/ \E p \in Invocations, request \in RateRequests :
       CountedTo(MaxBurst) /\ ReadCount(p, request, "none")
         /\ UNCHANGED <<prev, recent, browser>>
  \/ \E p \in Invocations : WriteCount(p) /\ Aside
  \/ \E p \in Invocations : ReadBody(p) /\ Aside
  \/ \E p \in Invocations : CallUpstream(p) /\ Aside
  \/ \E p \in Invocations, up \in RateUpstreams : ReadStatus(p, up) /\ Aside
  \/ \E p \in Invocations : ReadError(p) /\ Aside
  \/ Tick /\ Aside

SpecRate == InitSeeded(CallerIP) /\ [][NextRate]_vars

\* the exchange before the last, for as long as no time passes
Remembered(p) == prev' = IF Ended(p) THEN last ELSE prev

\* what a step of the handler leaves alone in such a run
Repeated(p) == Remembered(p) /\ UNCHANGED <<steps, recent, browser>>

\* runs of at most MaxSteps repeats, remembering the exchange before the last
NextRepeat ==
  \/ \E p \in Invocations, request \in RepeatRequests :
       Counted /\ ReadCount(p, request, "none") /\ Remembered(p)
         /\ UNCHANGED <<recent, browser>>
  \/ \E p \in Invocations : WriteCount(p) /\ Repeated(p)
  \/ \E p \in Invocations : ReadBody(p) /\ Repeated(p)
  \/ \E p \in Invocations : CallUpstream(p) /\ Repeated(p)
  \/ \E p \in Invocations, up \in RepeatUpstreams : ReadStatus(p, up) /\ Repeated(p)
  \/ \E p \in Invocations : ReadUsage(p) /\ Repeated(p)
  \/ \E p \in Invocations : WriteUsage(p) /\ Repeated(p)
  \/ \E p \in Invocations : Respond(p) /\ Repeated(p)
  \/ Counted /\ Tick /\ prev' = NoExchange /\ UNCHANGED <<recent, browser>>

SpecRepeat == Init /\ [][NextRepeat]_vars

\* within one rate-limit window: runs of at most MaxSteps further arrivals
\* in which no time passes and the upstream is let answer successfully while
\* fewer than MaxOkCalls of its answers have been counted
WindowUpstreams ==
  IF tally[month].okCalls < MaxOkCalls
  THEN RateUpstreams \cup {UpstreamAnswer(AnswerA, 50, 10)}
  ELSE RateUpstreams

NextWindow ==
  \/ \E p \in Invocations, request \in RateRequests :
       Counted /\ ReadCount(p, request, "none")
         /\ UNCHANGED <<prev, recent, browser>>
  \/ \E p \in Invocations : WriteCount(p) /\ Aside
  \/ \E p \in Invocations : ReadBody(p) /\ Aside
  \/ \E p \in Invocations : CallUpstream(p) /\ Aside
  \/ \E p \in Invocations, up \in WindowUpstreams : ReadStatus(p, up) /\ Aside
  \/ \E p \in Invocations : ReadError(p) /\ Aside
  \/ \E p \in Invocations : ReadUsage(p) /\ Aside
  \/ \E p \in Invocations : WriteUsage(p) /\ Aside
  \/ \E p \in Invocations : Respond(p) /\ Aside

SpecWindow == InitSeeded(CallerIP) /\ [][NextWindow]_vars

\* requests that carry no CF-Connecting-IP header, in runs of at most
\* MaxSteps further arrivals
AnonymousRequests ==
  {[Request("POST", k, PathHaiku, BodyText(TextHello)) EXCEPT !.clientIP = Null] :
     k \in {Secret, "other-key"}}

NextAnonymous ==
  \/ \E p \in Invocations, request \in AnonymousRequests :
       Counted /\ ReadCount(p, request, "none")
         /\ UNCHANGED <<prev, recent, browser>>
  \/ \E p \in Invocations : WriteCount(p) /\ Aside
  \/ \E p \in Invocations : ReadBody(p) /\ Aside
  \/ \E p \in Invocations : CallUpstream(p) /\ Aside
  \/ \E p \in Invocations, up \in RateUpstreams : ReadStatus(p, up) /\ Aside
  \/ \E p \in Invocations : ReadError(p) /\ Aside
  \/ Tick /\ Aside

SpecAnonymous == InitSeeded(Null) /\ [][NextAnonymous]_vars

\* a request the caller sent, as `recent` notes it: how long ago it arrived,
\* the slot of its invocation while the limiter has not decided on it (0
\* afterwards), whether the limiter admitted or rejected it, and how long
\* ago it was admitted; times of a minute and more are not told apart
Sent(age, slot, passed, limited, since) ==
  [age |-> age, slot |-> slot, passed |-> passed, limited |-> limited,
   since |-> since]

\* the request of invocation p as noted once p has taken a step
Noted(entry, p) ==
  IF entry.slot # p \/ inflight'[p].pc = "count-read" THEN entry
  ELSE IF Ended(p)
  THEN Sent(entry.age, 0, FALSE,
            last'.response = TextResponse(429, "Rate limit exceeded"), 0)
  ELSE Sent(entry.age, 0, TRUE, FALSE, 0)

\* a request of a caller who sends at most one request at any instant
ArriveSteady(p, request) ==
  /\ \A i \in 1..Len(recent) : recent[i].age # 0
  /\ Counted
  /\ ReadCount(p, request, "none")
  /\ recent' = Append(recent, Noted(Sent(0, p, FALSE, FALSE, 0), p))
  /\ UNCHANGED <<prev, browser>>

\* the limiter decides on the request of invocation p
DecideSteady(p) ==
  /\ WriteCount(p)
  /\ recent' = [i \in 1..Len(recent) |-> Noted(recent[i], p)]
  /\ UNCHANGED <<prev, steps, browser>>

\* ShortStep seconds pass: the entries of the store and of `recent` age, and
\* `recent` forgets the requests decided on that arrived, and were admitted
\* if at all, as long ago as the limiter's window
ElapseShort ==
  /\ KV' = KVafter(KV, ShortStep)
  /\ recent' =
       LET later(t) == IF t + ShortStep > RateTtl THEN RateTtl
                       ELSE t + ShortStep
           aged == [i \in 1..Len(recent) |->
                      [recent[i] EXCEPT !.age = later(@),
                                        !.since = IF recent[i].passed
                                                  THEN later(@) ELSE @]]
       IN  SelectSeq(aged, LAMBDA r : \/ r.slot # 0
                                      \/ r.age < RateTtl
                                      \/ (r.passed /\ r.since < RateTtl))
  /\ admitted' = [ip \in ClientIPs |->
                    IF ip = CallerIP
                    THEN Cardinality({i \in 1..Len(recent') :
                                        /\ recent'[i].passed
                                        /\ recent'[i].since < RateTtl})
                    ELSE 0]
  /\ exceeded' = Exceeding(KV')
  /\ tally' = Aged(ShortStep)
  /\ UNCHANGED <<month, days, last, prev, steps, inflight, overlapped,
                 browser>>

\* the worker as deployed, or after RateLimit - 1 requests Plain(CallerIP),
\* one every ShortStep seconds: the two of the last minute are noted
InitSteady ==
  /\ \/ WorkerInit
     \/ Seeded(CallerIP, RateLimit - 1, 2,
               <<Sent(ShortStep, 0, TRUE, FALSE, ShortStep),
                 Sent(0, 0, TRUE, FALSE, 0)>>)
  /\ browser = NoBrowser

\* runs of at most MaxSteps further arrivals of a caller who never sends two
\* requests at the same instant, time passing in steps of ShortStep seconds
NextSteady ==
  \/ \E p \in Invocations, request \in RateRequests : ArriveSteady(p, request)
  \/ \E p \in Invocations : DecideSteady(p)
  \/ \E p \in Invocations : ReadBody(p) /\ Aside
  \/ \E p \in Invocations : CallUpstream(p) /\ Aside
  \/ \E p \in Invocations, up \in RateUpstreams : ReadStatus(p, up) /\ Aside
  \/ \E p \in Invocations : ReadError(p) /\ Aside
  \/ ElapseShort

SpecSteady == InitSteady /\ [][NextSteady]_vars

\* requests handled while env.KV may throw at one of its calls
FaultRequests ==
  {Request("POST", k, PathHaiku, BodyText(TextHello)) : k \in {Secret, Null}}
  \cup {Request("POST", Secret, PathHaiku, BodyUnparsable)}

FaultUpstreams ==
  {UpstreamDown, UpstreamError(429, "object"),
   UpstreamAnswer(AnswerA, 50, 10), UpstreamAnswerNoUsage(AnswerB)}

\* runs of at most MaxSteps steps with a store that may fail
NextFault ==
  \/ \E p \in Invocations, request \in FaultRequests, kv \in KVFaults :
       Counted /\ ReadCount(p, request, kv)
         /\ UNCHANGED <<prev, recent, browser>>
  \/ \E p \in Invocations : WriteCount(p) /\ Aside
  \/ \E p \in Invocations : ReadBody(p) /\ Aside
  \/ \E p \in Invocations : CallUpstream(p) /\ Aside
  \/ \E p \in Invocations, up \in FaultUpstreams : ReadStatus(p, up) /\ Aside
  \/ \E p \in Invocations : ReadError(p) /\ Aside
  \/ \E p \in Invocations : ReadUsage(p) /\ Aside
  \/ \E p \in Invocations : WriteUsage(p) /\ Aside
  \/ \E p \in Invocations : Respond(p) /\ Aside
  \/ Counted /\ Tick /\ UNCHANGED <<prev, recent, browser>>

SpecFault == Init /\ [][NextFault]_vars

\* the ledger under concurrent writers: MaxSteps requests that carry the key,
\* answered with and without usage
ConcurrentRequests ==
  {Request("POST", k, PathHaiku, BodyText(TextHello)) : k \in {Secret, "other-key"}}

ConcurrentUpstreams ==
  {UpstreamDown, UpstreamAnswer(AnswerA, 50, 10), UpstreamAnswer(AnswerB, 7, 0),
   UpstreamAnswerNoUsage(AnswerA)}

NextConcurrent ==
  \/ \E p \in Invocations, request \in ConcurrentRequests :
       Counted /\ ReadCount(p, request, "none")
         /\ UNCHANGED <<prev, recent, browser>>
  \/ \E p \in Invocations : WriteCount(p) /\ Aside
  \/ \E p \in Invocations : ReadBody(p) /\ Aside
  \/ \E p \in Invocations : CallUpstream(p) /\ Aside
  \/ \E p \in Invocations, up \in ConcurrentUpstreams : ReadStatus(p, up) /\ Aside
  \/ \E p \in Invocations : ReadUsage(p) /\ Aside
  \/ \E p \in Invocations : WriteUsage(p) /\ Aside
  \/ \E p \in Invocations : Respond(p) /\ Aside

SpecConcurrent == Init /\ [][NextConcurrent]_vars

\* the ledger over the months: MaxSteps requests that carry the key, answered
\* with and without usage, days passing between them and the month changing
NextLedger ==
  \/ \E p \in Invocations, request \in ConcurrentRequests :
       Counted /\ ReadCount(p, request, "none")
         /\ UNCHANGED <<prev, recent, browser>>
  \/ \E p \in Invocations : WriteCount(p) /\ Aside
  \/ \E p \in Invocations : ReadBody(p) /\ Aside
  \/ \E p \in Invocations : CallUpstream(p) /\ Aside
  \/ \E p \in Invocations, up \in ConcurrentUpstreams : ReadStatus(p, up) /\ Aside
  \/ \E p \in Invocations : ReadUsage(p) /\ Aside
  \/ \E p \in Invocations : WriteUsage(p) /\ Aside
  \/ \E p \in Invocations : Respond(p) /\ Aside
  \/ DaysPass /\ Aside
  \/ NextMonth /\ Aside

SpecLedger == Init /\ [][NextLedger]_vars

-----------------------------------------------------------------------------
(* The browser: the key generator of the client cache                       *)
(* (services/openRouterService.ts, clientCache.generateKey).  Here a string *)
(* is the sequence of its characters; "<Pe>" and "<er>" stand for two        *)
(* Cyrillic letters (U+041F, U+0440), which lie outside Latin-1, and         *)
(* "<backslash>" and "<backtick>" for these two characters.                 *)

KeyLength == 50

\* the printable ASCII characters in code order, from the space (32) on
Ascii ==
  <<" ", "!", "\"", "#", "$", "%", "&", "'", "(", ")", "*", "+", ",", "-",
    ".", "/", "0", "1", "2", "3", "4", "5", "6", "7", "8", "9", ":", ";",
    "<", "=", ">", "?", "@", "A", "B", "C", "D", "E", "F", "G", "H", "I",
    "J", "K", "L", "M", "N", "O", "P", "Q", "R", "S", "T", "U", "V", "W",
    "X", "Y", "Z", "[", "<backslash>", "]", "^", "_", "<backtick>", "a", "b", "c", "d", "e",
    "f", "g", "h", "i", "j", "k", "l", "m", "n", "o", "p", "q", "r", "s",
    "t", "u", "v", "w", "x", "y", "z", "{", "|", "}", "~">>

\* String.charCodeAt
charCode(c) ==
  IF c = "<Pe>" THEN 1055
  ELSE IF c = "<er>" THEN 1088
  ELSE 31 + (CHOOSE i \in 1..Len(Ascii) : Ascii[i] = c)

Base64Alphabet ==
  <<"A", "B", "C", "D", "E", "F", "G", "H", "I", "J", "K", "L", "M", "N",
    "O", "P", "Q", "R", "S", "T", "U", "V", "W", "X", "Y", "Z", "a", "b",
    "c", "d", "e", "f", "g", "h", "i", "j", "k", "l", "m", "n", "o", "p",
    "q", "r", "s", "t", "u", "v", "w", "x", "y", "z", "0", "1", "2", "3",
    "4", "5", "6", "7", "8", "9", "+", "/">>

\* the optional config argument: left out, or { temperature }
NoConfig == [defined |-> FALSE, temperature |-> 0]
Config(temperature) == [defined |-> TRUE, temperature |-> temperature]

\* JSON.stringify of { model, contents, config }, the contents being
\* [{ parts: [{ text }] }] and the config undefined (then left out) or
\* { temperature }
stringify(cacheData) ==
  LET \* a string that needs no escape
      quote(text) == <<"\"">> \o text \o <<"\"">>
      \* a temperature (in tenths)
      stringifyNumber(tenths) ==
        IF tenths % 10 = 0 THEN toString(tenths \div 10)
        ELSE toString(tenths \div 10) \o <<".">> \o toString(tenths % 10)
  IN
  <<"{", "\"", "m", "o", "d", "e", "l", "\"", ":">>
    \o quote(cacheData.model)
    \o <<",", "\"", "c", "o", "n", "t", "e", "n", "t", "s", "\"", ":", "[",
         "{", "\"", "p", "a", "r", "t", "s", "\"", ":", "[", "{", "\"",
         "t", "e", "x", "t", "\"", ":">>
    \o quote(cacheData.contents)
    \o <<"}", "]", "}", "]">>
    \o (IF ~cacheData.config.defined THEN <<>>
        ELSE <<",", "\"", "c", "o", "n", "f", "i", "g", "\"", ":", "{",
               "\"", "t", "e", "m", "p", "e", "r", "a", "t", "u", "r", "e",
               "\"", ":">>
             \o stringifyNumber(cacheData.config.temperature) \o <<"}">>)
    \o <<"}">>

\* btoa: base64 of a string of Latin-1 characters, three bytes to four
\* characters, "=" for the missing ones; it throws (InvalidCharacterError)
\* on any other character
btoa(text) ==
  IF \E i \in 1..Len(text) : charCode(text[i]) > 255
  THEN [threw |-> TRUE, value |-> <<>>]
  ELSE LET byte(i) == IF i <= Len(text) THEN charCode(text[i]) ELSE 0
           group(g) == byte(3 * g + 1) * 65536 + byte(3 * g + 2) * 256
                         + byte(3 * g + 3)
           shift(pos) == IF pos = 0 THEN 262144 ELSE IF pos = 1 THEN 4096
                         ELSE IF pos = 2 THEN 64 ELSE 1
           char(k) ==
             LET g == (k - 1) \div 4
                 pos == (k - 1) % 4
             IN  IF pos >= 2 /\ 3 * g + pos > Len(text) THEN "="
                 ELSE Base64Alphabet[((group(g) \div shift(pos)) % 64) + 1]
       IN  [threw |-> FALSE,
            value |-> [k \in 1..(4 * ((Len(text) + 2) \div 3)) |-> char(k)]]

\* clientCache.generateKey: the first KeyLength characters of the base64
\* text (String.slice), every character that is no letter and no digit made
\* "_" (String.replace); '' when btoa throws
generateKey(modelName, contents, config) ==
  LET cacheData == [model |-> modelName, contents |-> contents,
                    config |-> config]
      encoded == btoa(stringify(cacheData))
      slice(text, end) ==
        SubSeq(text, 1, IF Len(text) < end THEN Len(text) ELSE end)
      AlphaNumeric == {Base64Alphabet[i] : i \in 1..62}
      replace(text) ==
        [i \in 1..Len(text) |->
           IF text[i] \in AlphaNumeric THEN text[i] ELSE "_"]
  IN  IF encoded.threw THEN <<>>
      ELSE replace(slice(encoded.value, KeyLength))

\* the inputs the key generator is run on: the two model names of the
\* client, four one-message contents, the config left out or given
KeyInputs ==
  [model : {<<"c", "l", "a", "u", "d", "e", "-", "3", "-", "h", "a", "i",
              "k", "u">>,
            <<"c", "l", "a", "u", "d", "e", "-", "3", "-", "5", "-", "s",
              "o", "n", "n", "e", "t">>},
   contents : {<<"b", "o", "x">>, <<"b", "a", "g">>, <<"<Pe>">>, <<"<er>">>},
   config : {NoConfig, Config(2), Config(7)}]

\* browser.keys: the inputs and keys of the last two calls, the newest first
InitKey == WorkerInit /\ browser = [service |-> "clientCache", keys |-> <<>>]

\* one call of generateKey
GenerateKey ==
  /\ \E input \in KeyInputs :
       browser' =
         [browser EXCEPT !.keys =
            <<[input |-> input,
               key |-> generateKey(input.model, input.contents,
                                   input.config)]>>
            \o SubSeq(@, 1, IF Len(@) = 0 THEN 0 ELSE 1)]
  /\ UNCHANGED worker

SpecKey == InitKey /\ [][GenerateKey]_vars

-----------------------------------------------------------------------------
(* The browser: the two request clients, makeSecureGeminiRequest            *)
(* (geminiService) and SecureApiService.request, each a loop of fetch       *)
(* attempts.  Both are async functions that may be called while earlier     *)
(* calls are waiting; the calls under way are told apart by the slot they   *)
(* take.  The steps of a call are cut at its awaits: the call up to its     *)
(* first fetch, the settling of a fetch with what follows it, the firing of *)
(* a timer.  Times are in milliseconds (Date.now()).                        *)

GeminiClient == "makeSecureGeminiRequest"
ApiClient == "SecureApiService.request"

\* what a fetch settles with: a response of some status whose body is JSON
\* of some kind and which may carry a Retry-After header (the empty text
\* when it carries none), or a rejection
Answer(status, body, retryAfter) ==
  [settled |-> "response", status |-> status, parsable |-> TRUE,
   body |-> body, retryAfter |-> retryAfter]

\* a response as the worker gives it: candidates with a 200, an error body
\* otherwise
Response(status) ==
  Answer(status, IF ok(status) THEN "candidates" ELSE "error", <<>>)

NetworkError ==
  [settled |-> "rejected", status |-> 0, parsable |-> FALSE,
   body |-> "none", retryAfter |-> <<>>]

\* a 200 whose body cannot be read as the JSON its content type announces
Unparsable == [Response(200) EXCEPT !.parsable = FALSE]

\* a 200 whose JSON has no candidates but promptFeedback.blockReason, an
\* error member, or neither
Blocked == Answer(200, "blocked", <<>>)
ErrorBody == Answer(200, "error", <<>>)
NoText == Answer(200, "other", <<>>)

\* a 429 that tells when to come again, in seconds and as a date
RetryAfterSeconds == Answer(429, "error", <<"7">>)
RetryAfterDate == Answer(429, "error", <<"W", "e", "d">>)
\* and in the other forms parseInt reads: base 16, and with a sign
RetryAfterHex == Answer(429, "error", <<"0", "x", "1", "0">>)
RetryAfterSigned == Answer(429, "error", <<"-", "5">>)
\* after a form feed, and in more seconds than a timer can count in
\* milliseconds
RetryAfterSpaced == Answer(429, "error", <<"\f", "7">>)
RetryAfterLong ==
  Answer(429, "error", <<"2", "1", "4", "7", "4", "8", "4">>)

Answers ==
  {Response(200), Blocked, ErrorBody, NoText, Response(400), Response(401),
   Response(429), RetryAfterSeconds, RetryAfterDate, RetryAfterHex,
   RetryAfterSigned, RetryAfterSpaced, RetryAfterLong, Response(500),
   NetworkError}

\* the digits of base 16 in the order of their values
HexDigit == Digit \o <<"a", "b", "c", "d", "e", "f">>

\* the value of the character c as a digit of `base`, -1 when it is none
digitOf(c, base) ==
  LET lower == IF c = "A" THEN "a" ELSE IF c = "B" THEN "b"
               ELSE IF c = "C" THEN "c" ELSE IF c = "D" THEN "d"
               ELSE IF c = "E" THEN "e" ELSE IF c = "F" THEN "f" ELSE c
  IN  IF \E v \in 1..base : HexDigit[v] = lower
      THEN (CHOOSE v \in 1..base : HexDigit[v] = lower) - 1
      ELSE -1

\* the number the digits spell in `base`
RECURSIVE spelled(_, _)
spelled(digits, base) ==
  IF digits = <<>> THEN 0
  ELSE base * spelled(SubSeq(digits, 1, Len(digits) - 1), base)
         + digitOf(digits[Len(digits)], base)

\* what parseInt gives: a number, or NaN
NaN == [nan |-> TRUE, value |-> 0]
Number(value) == [nan |-> FALSE, value |-> value]

\* the white space and line terminators of the language, which parseInt and
\* String.prototype.trim skip: tab, vertical tab, form feed, space, no-break
\* space, byte order mark, the space separators of Unicode, line feed,
\* carriage return, line and paragraph separator (the characters outside
\* ASCII are written by their code points)
WhiteSpace ==
  {"\t", "<U+000B>", "\f", " ", "<U+00A0>", "<U+FEFF>", "<U+1680>",
   "<U+2000>", "<U+2001>", "<U+2002>", "<U+2003>", "<U+2004>", "<U+2005>",
   "<U+2006>", "<U+2007>", "<U+2008>", "<U+2009>", "<U+200A>", "<U+202F>",
   "<U+205F>", "<U+3000>", "\n", "\r", "<U+2028>", "<U+2029>"}

\* parseInt(text) with no radix: leading white space is skipped, a sign
\* taken, a 0x or 0X prefix makes the base 16, and the digits of the base up
\* to the first other character are the number; NaN when there is no digit
parseIntLeading(text) ==
  LET isSpace(c) == c \in WhiteSpace
      spaces == CHOOSE n \in 0..Len(text) :
                  /\ \A i \in 1..n : isSpace(text[i])
                  /\ n < Len(text) => ~isSpace(text[n + 1])
      signed == spaces < Len(text) /\ text[spaces + 1] \in {"+", "-"}
      negative == signed /\ text[spaces + 1] = "-"
      unsigned == spaces + (IF signed THEN 1 ELSE 0)
      hex == /\ unsigned + 2 <= Len(text)
             /\ text[unsigned + 1] = "0"
             /\ text[unsigned + 2] \in {"x", "X"}
      base == IF hex THEN 16 ELSE 10
      from == unsigned + (IF hex THEN 2 ELSE 0)
      digits == CHOOSE n \in 0..(Len(text) - from) :
                  /\ \A i \in 1..n : digitOf(text[from + i], base) >= 0
                  /\ from + n < Len(text)
                       => digitOf(text[from + n + 1], base) < 0
      number == spelled(SubSeq(text, from + 1, from + digits), base)
  IN  IF digits = 0 THEN NaN
      ELSE Number(IF negative THEN 0 - number ELSE number)

\* the delay of setTimeout(handler, v * 1000), in milliseconds: the argument
\* is made a 32-bit integer (modulo 2^32, from 2^31 on negative) and a
\* negative one counts as 0, so that a delay above 2^31 - 1 fires at once or
\* early.  2^32 is 4294967 * 1000 + 296; nothing here leaves the range of 32
\* bits
timeoutOfSeconds(v) ==
  LET w == IF v < 0 THEN 0 - v ELSE v
      n == w \div 4294967
      r == w % 4294967
      \* w * 1000 is n * 2^32 + (r * 1000 - n * 296)
      high == r > 2147483 + ((IF v < 0 THEN 648 ELSE 647) + n * 296) \div 1000
  IN  IF v >= 0
      THEN (IF high THEN 0
            ELSE IF r * 1000 < n * 296 THEN 0
            ELSE r * 1000 - n * 296)
      ELSE (IF high THEN (4294967 - r) * 1000 + 296 + n * 296
            ELSE IF r * 1000 < n * 296 THEN n * 296 - r * 1000
            ELSE 0)

\* the delay of setTimeout(handler, ms) for a number of milliseconds within
\* 32 bits: NaN and a negative delay count as 0
timeoutOf(ms) == IF ms.nan \/ ms.value < 0 THEN 0 ELSE ms.value

\* retryAfter ? parseInt(retryAfter) * 1000 : retryDelay * attempt (line
\* 84), as setTimeout takes it (line 87)
retryAfterDelay(retryAfter, attempt) ==
  LET parsed == parseIntLeading(retryAfter)
  IN  IF retryAfter = <<>> THEN RetryDelay * attempt
      ELSE IF parsed.nan THEN 0
      ELSE timeoutOfSeconds(parsed.value)

\* SecureApiService.checkRateLimit at the time `now`
checkRateLimit(service, now) ==
  IF (now - service.lastRequestTime) * MaxRequestsPerMinute < 1000
  THEN [allowed |-> FALSE, lastRequestTime |-> service.lastRequestTime,
        requestCount |-> service.requestCount]
  ELSE [allowed |-> TRUE, lastRequestTime |-> now,
        requestCount |-> service.requestCount + 1]

\* the condition of the for loop over the attempts, attempt <= maxAttempts:
\* false of every attempt when maxAttempts is NaN
attemptsLeftOneMore(attempt, maxAttempts) ==
  ~maxAttempts.nan /\ attempt <= maxAttempts.value + 1

attemptsLeft(attempt, maxAttempts) ==
  ~maxAttempts.nan /\ attempt <= maxAttempts.value

\* a || b on numbers: b when a is undefined, NaN or 0 (a number that is not
\* given is written NaN, which || passes over as well)
orElse(a, b) == IF a.nan \/ a.value = 0 THEN b ELSE a

\* the build's environment: VITE_RETRY_ATTEMPTS and VITE_RETRY_DELAY, the
\* empty text for a variable that is not set
NoEnvironment == [VITE_RETRY_ATTEMPTS |-> <<>>, VITE_RETRY_DELAY |-> <<>>]

Environments ==
  {NoEnvironment,
   [VITE_RETRY_ATTEMPTS |-> <<"2">>,
    VITE_RETRY_DELAY |-> <<"5", "0", "0">>]}

\* the configuration loadConfig leaves (lines 38-46): baseUrl and
\* clientApiKey as deployed, retryAttempts and retryDelay read from the
\* environment with parseInt, '3' and '1000' for a variable not set
loadConfig(env) ==
  [baseUrl |-> "https", clientApiKey |-> "set",
   retryAttempts |-> parseIntLeading(IF env.VITE_RETRY_ATTEMPTS = <<>>
                                     THEN <<"3">>
                                     ELSE env.VITE_RETRY_ATTEMPTS),
   retryDelay |-> parseIntLeading(IF env.VITE_RETRY_DELAY = <<>>
                                  THEN <<"1", "0", "0", "0">>
                                  ELSE env.VITE_RETRY_DELAY)]

ConfiguredApi == loadConfig(NoEnvironment)

\* and with the URL or the key missing, the URL no http(s) URL, or no
\* number of attempts
ApiConfigs ==
  {ConfiguredApi,
   [ConfiguredApi EXCEPT !.baseUrl = ""],
   [ConfiguredApi EXCEPT !.clientApiKey = ""],
   [ConfiguredApi EXCEPT !.baseUrl = "ftp"],
   [ConfiguredApi EXCEPT !.baseUrl = "malformed"],
   loadConfig([NoEnvironment EXCEPT !.VITE_RETRY_ATTEMPTS = <<"o", "f", "f">>])}

\* a request configuration: its URL, the length of JSON.stringify(data) (0
\* standing for no data), and retryAttempts and retryDelay where the caller
\* gives them
PostConfig ==
  [url |-> "https", dataSize |-> 2, retryAttempts |-> NaN, retryDelay |-> NaN]

RequestConfigs ==
  {PostConfig,
   [PostConfig EXCEPT !.dataSize = 0],
   [PostConfig EXCEPT !.url = ""],
   [PostConfig EXCEPT !.url = "ftp"],
   [PostConfig EXCEPT !.dataSize = MaxStringLength],
   [PostConfig EXCEPT !.dataSize = MaxStringLength + 1],
   [PostConfig EXCEPT !.retryAttempts = Number(1)]}

\* the configurations a caller of post gives the loop: none of its own, the
\* settings of the environment as openRouterService does (line 522), one
\* attempt
RetryConfigs(api) ==
  {PostConfig,
   [PostConfig EXCEPT !.retryAttempts = api.retryAttempts,
                      !.retryDelay = api.retryDelay],
   [PostConfig EXCEPT !.retryAttempts = Number(1)]}

\* the message of the error validateApiConfig throws, Null when it passes
validateApiConfig(api) ==
  IF api.baseUrl = "" THEN "API base URL is not configured"
  ELSE IF api.clientApiKey = "" THEN "client API key is not configured"
  ELSE IF api.baseUrl # "https" THEN "invalid API URL"
  ELSE Null

\* the message of the error the sanitizers throw on the request's URL or
\* data, Null when they pass
sanitizeRequest(config) ==
  IF config.url # "https" THEN "invalid URL format"
  ELSE IF config.dataSize # 0 /\ config.dataSize > MaxStringLength
       THEN "data too large"
  ELSE Null

\* the message of the error a settled fetch makes the attempt of `client`
\* throw, Null when the attempt returns: makeSecureGeminiRequest (lines
\* 78-124) throws on a 401, on another status that is not ok, on an
\* unreadable body and on a body that is blocked or an error;
\* handleResponse (lines 245-271) on a status that is not ok and on an
\* unreadable body
errorOf(client, answer) ==
  IF answer.settled = "rejected" THEN "Failed to fetch"
  ELSE IF client = GeminiClient /\ answer.status = 401
  THEN "invalid client API key"
  ELSE IF ~ok(answer.status) THEN "HTTP error"
  ELSE IF ~answer.parsable THEN "response parsing error"
  ELSE IF client = GeminiClient /\ answer.body = "blocked"
  THEN "request blocked by API"
  ELSE IF client = GeminiClient /\ answer.body = "error"
  THEN "error from API"
  ELSE Null

\* the error thrown when the loop ends with no error caught
NoAnswerError == "could not reach the API after several attempts"

\* what a call gives its caller: nothing yet, a value, or a rejection
Pending == [state |-> "pending"]
Resolved(success, status, error) ==
  [state |-> "resolved", success |-> success, status |-> status,
   error |-> error]
Rejected(error) == [state |-> "rejected", error |-> error]

\* an outer catch that passes the error on
rethrown(error) == Rejected(error)

\* the outer catch of SecureApiService.request (lines 220-233)
caught(error) == Resolved(FALSE, 0, error)

\* how a call that failed ends: request returns the error response,
\* makeSecureGeminiRequest throws
callFailed(client, error) ==
  IF client = ApiClient THEN caught(error) ELSE Rejected(error)

\* the calls that may be under way at the same time
Calls == 1..MaxCalls

\* what is kept of an answer once the client has dealt with it
Seen(answer) ==
  [settled |-> answer.settled, status |-> answer.status,
   parsable |-> answer.parsable]

\* a slot no call has taken: `seen` are the answers to the fetches of the
\* call, `response` the response whose body the call awaits, `lastError`
\* the error its catch block noted last, `due` the time its timer fires
NoCallYet ==
  [client |-> ApiClient, pc |-> "idle", attempt |-> 0, seen |-> <<>>,
   response |-> Null,
   maxAttempts |-> Number(RetryAttempts), retryDelay |-> Number(RetryDelay),
   lastError |-> Null, due |-> 0, outcome |-> "none", returned |-> Pending]

\* the service as constructed (lastRequestTime = 0, requestCount = 0), no
\* call made; `through` counts the fetches sent, `ticks` the passings of
\* time and the resets
Constructed(api) ==
  [service |-> "clients", now |-> StartTime,
   lastRequestTime |-> 0, requestCount |-> 0, through |-> 0, ticks |-> 0,
   api |-> api, calls |-> [c \in Calls |-> NoCallYet]]

\* the service as the build's environment configures it
InitClient ==
  WorkerInit /\ \E env \in Environments : browser = Constructed(loadConfig(env))

\* a new call takes the first slot whose call is not under way
free(call) == call.pc \in {"idle", "done"}

takes(c) ==
  /\ free(browser.calls[c])
  /\ \A d \in Calls : d < c => ~free(browser.calls[d])

\* the error thrown when the loop of request ends with no error caught
\* (line 218)
UnknownApiError == "unknown API error"

\* SecureApiService.request up to its first fetch (lines 130-184): the
\* configuration check, the limiter, the sanitizers; whatever one of them
\* throws ends the call in the outer catch.  maxAttempts and retryDelay are
\* the caller's or else the configured ones (lines 172-173); a loop that has
\* no first attempt sends nothing and ends in throw lastError || new
\* Error(...)
secureRequest(c, config) ==
  /\ takes(c)
  /\ LET invalid == validateApiConfig(browser.api)
         limit == IF invalid # Null
                  THEN [allowed |-> FALSE,
                        lastRequestTime |-> browser.lastRequestTime,
                        requestCount |-> browser.requestCount]
                  ELSE checkRateLimit(browser, browser.now)
         maxAttempts == orElse(config.retryAttempts, browser.api.retryAttempts)
         thrown == IF invalid # Null THEN invalid
                   ELSE IF ~limit.allowed THEN "rate limit exceeded"
                   ELSE IF sanitizeRequest(config) # Null
                   THEN sanitizeRequest(config)
                   ELSE IF ~attemptsLeft(1, maxAttempts) THEN UnknownApiError
                   ELSE Null
     IN  browser' =
           [browser EXCEPT
              !.lastRequestTime = limit.lastRequestTime,
              !.requestCount = limit.requestCount,
              !.through = @ + (IF thrown = Null THEN 1 ELSE 0),
              !.calls[c] =
                 [NoCallYet EXCEPT
                    !.client = ApiClient,
                    !.maxAttempts = maxAttempts,
                    !.retryDelay = orElse(config.retryDelay,
                                          browser.api.retryDelay),
                    !.pc = IF thrown = Null THEN "fetch" ELSE "done",
                    !.attempt = IF thrown = Null THEN 1 ELSE 0,
                    !.outcome = IF thrown = Null THEN "none" ELSE "error",
                    !.returned = IF thrown = Null THEN Pending
                                 ELSE caught(thrown)]]
  /\ UNCHANGED worker

\* a client is called and runs up to its first fetch; makeSecureGeminiRequest
\* (lines 46-69) has nothing to check before it, and the bound of its loop
\* is API_CONFIG.retryAttempts
Call(c, client) ==
  IF client = ApiClient
  THEN \E config \in RetryConfigs(browser.api) : secureRequest(c, config)
  ELSE /\ takes(c)
       /\ browser' = [browser EXCEPT
                         !.through = @ + 1,
                         !.calls[c] = [NoCallYet EXCEPT !.client = client,
                                                        !.pc = "fetch",
                                                        !.attempt = 1]]
       /\ UNCHANGED worker

\* public resetStats() (secureApiService.ts lines 351-354)
resetStats ==
  /\ browser.ticks < MaxTicks
  /\ browser' = [browser EXCEPT !.requestCount = 0, !.lastRequestTime = 0,
                                !.ticks = @ + 1]
  /\ UNCHANGED worker

\* the for loop goes on: the attempt after this one, or its end with
\* `throw lastError || new Error(...)` (part_009 line 138,
\* secureApiService.ts line 218)
nextAttempt(call) ==
  IF attemptsLeft(call.attempt + 1, call.maxAttempts)
  THEN [call EXCEPT !.attempt = @ + 1, !.pc = "fetch"]
  ELSE [call EXCEPT
          !.attempt = @ + 1, !.pc = "done", !.outcome = "error",
          !.returned = callFailed(call.client,
                                  IF call.lastError = Null THEN NoAnswerError
                                  ELSE call.lastError)]

\* the fetches a step of a call has sent
sends(call) == IF call.pc = "fetch" THEN 1 ELSE 0

\* a settled fetch whose body the client awaits before it goes on: every
\* response but the 401 and the 429 of makeSecureGeminiRequest, which are
\* dealt with on their status (part_009 lines 78-89)
awaitsBody(client, answer) ==
  /\ answer.settled = "response"
  /\ ~(client = GeminiClient /\ answer.status \in {401, 429})

\* the call once the client has dealt with `answer` at the time `now`: an
\* attempt that throws nothing ends the call with its result;
\* makeSecureGeminiRequest sets a timer and goes on after a 429, noting no
\* error; every error thrown is caught and noted, and the client sets a
\* timer before the next attempt unless this was the last
attempted(call, answer, now) ==
  LET limited == /\ call.client = GeminiClient
                 /\ answer.settled = "response"
                 /\ answer.status = 429
      error == errorOf(call.client, answer)
      noted == [call EXCEPT !.lastError = error]
  IN
  IF limited
  THEN [call EXCEPT
          !.pc = "delay",
          !.due = now + retryAfterDelay(answer.retryAfter, call.attempt)]
  ELSE IF error = Null
  THEN [call EXCEPT !.pc = "done", !.outcome = "result",
                    !.returned = Resolved(TRUE, answer.status, Null)]
  ELSE IF call.client = ApiClient
  THEN \* lines 209-214: the last attempt breaks out of the loop, any other
       \* awaits this.delay(retryDelay * attempt)
       IF call.attempt = call.maxAttempts.value
       THEN [noted EXCEPT !.pc = "done", !.outcome = "error",
                          !.returned = caught(error)]
       ELSE [noted EXCEPT
               !.pc = "delay",
               !.due = now + timeoutOf(
                               IF call.retryDelay.nan THEN NaN
                               ELSE Number(call.retryDelay.value
                                             * call.attempt))]
  ELSE \* part_009 lines 132-134: a timer unless this was the last attempt
       IF call.attempt < RetryAttempts
       THEN [noted EXCEPT !.pc = "delay",
                          !.due = now + RetryDelay * call.attempt]
       ELSE nextAttempt(noted)

\* the fetch of call c settles with `answer`: the client awaits its body,
\* or deals with it at once when it reads none (a rejected fetch, the 401
\* and the 429 of makeSecureGeminiRequest)
Settle(c, answer) ==
  /\ browser.calls[c].pc = "fetch"
  /\ LET call == [browser.calls[c] EXCEPT !.seen = Append(@, Seen(answer))]
         after == IF awaitsBody(call.client, answer)
                  THEN [call EXCEPT !.pc = "body", !.response = answer]
                  ELSE attempted(call, answer, browser.now)
     IN  browser' = [browser EXCEPT !.calls[c] = after,
                                    !.through = @ + sends(after)]
  /\ UNCHANGED worker

\* the body of the response to call c is in (part_009 lines 94 and 102,
\* secureApiService.ts lines 249 and 265) and the client deals with the
\* answer
Body(c) ==
  /\ browser.calls[c].pc = "body"
  /\ LET call == [browser.calls[c] EXCEPT !.response = Null]
         after == attempted(call, browser.calls[c].response, browser.now)
     IN  browser' = [browser EXCEPT !.calls[c] = after,
                                    !.through = @ + sends(after)]
  /\ UNCHANGED worker

\* the timer of call c fires, no sooner than it is due and no timer due
\* before it waiting, and the loop goes on
Delay(c) ==
  /\ browser.calls[c].pc = "delay"
  /\ \A d \in Calls :
       browser.calls[d].pc = "delay"
         => browser.calls[c].due <= browser.calls[d].due
  /\ LET after == nextAttempt([browser.calls[c] EXCEPT !.due = 0])
     IN  browser' =
           [browser EXCEPT
              !.now = IF @ < browser.calls[c].due THEN browser.calls[c].due
                      ELSE @,
              !.calls[c] = after,
              !.through = @ + sends(after)]
  /\ UNCHANGED worker

\* how the server answers: in any of the ways `all` while no more than
\* MaxThrough fetches have been sent, with a 200 later on
Answering(all) ==
  IF browser.through <= MaxThrough THEN all ELSE {Response(200)}

\* calls of both clients, begun while fewer than MaxThrough fetches have
\* been sent
NextRetry ==
  \/ \E c \in Calls, client \in {GeminiClient, ApiClient} :
       browser.through < MaxThrough /\ Call(c, client)
  \/ \E c \in Calls, answer \in Answering(Answers) : Settle(c, answer)
  \/ \E c \in Calls : Body(c)
  \/ \E c \in Calls : Delay(c)

\* a fetch under way settles, the body of a response arrives and a timer
\* set fires
SpecRetry ==
  InitClient /\ [][NextRetry]_vars
    /\ \A c \in Calls :
         /\ WF_vars(\E answer \in Answering(Answers) : Settle(c, answer))
         /\ WF_vars(Body(c))
         /\ WF_vars(Delay(c))

\* ClockStep milliseconds pass, no timer left waiting past its time
Elapse ==
  /\ browser.ticks < MaxTicks
  /\ \A c \in Calls :
       browser.calls[c].pc = "delay"
         => browser.now + ClockStep <= browser.calls[c].due
  /\ browser' = [browser EXCEPT !.now = @ + ClockStep, !.ticks = @ + 1]
  /\ UNCHANGED worker

\* the service after n >= 1 calls of post, one every ClockStep milliseconds
\* from StartTime on, each answered 200 before the next was made
Posted(n) ==
  [Constructed(ConfiguredApi) EXCEPT
     !.now = StartTime + (n - 1) * ClockStep,
     !.lastRequestTime = StartTime + (n - 1) * ClockStep,
     !.requestCount = n,
     !.through = n,
     !.calls[1] = [NoCallYet EXCEPT
                     !.client = ApiClient, !.pc = "done", !.attempt = 1,
                     !.seen = <<Seen(Response(200))>>,
                     !.outcome = "result",
                     !.returned = Resolved(TRUE, 200, Null)]]

\* the service as constructed, or one call short of maxRequestsPerMinute
InitLimiter ==
  /\ WorkerInit
  /\ \/ browser = Constructed(ConfiguredApi)
     \/ browser = Posted(MaxRequestsPerMinute - 1)

\* a page that calls SecureApiService.request at any pace over MaxTicks
\* further passings of time, the server answering 200
NextLimiter ==
  \/ \E c \in Calls : Call(c, ApiClient)
  \/ \E c \in Calls : Settle(c, Response(200))
  \/ \E c \in Calls : Body(c)
  \/ Elapse
  \/ resetStats

SpecLimiter == InitLimiter /\ [][NextLimiter]_vars

\* SecureApiService.request under any configuration, called with any
\* request, each fetch answered in any way
InitRequest ==
  WorkerInit /\ \E api \in ApiConfigs : browser = Constructed(api)

NextRequest ==
  \/ \E c \in Calls, config \in RequestConfigs :
       browser.through < MaxThrough /\ secureRequest(c, config)
  \/ \E c \in Calls, answer \in Answering(Answers \cup {Unparsable}) :
       Settle(c, answer)
  \/ \E c \in Calls : Body(c)
  \/ \E c \in Calls : Delay(c)
  \/ resetStats

SpecRequest == InitRequest /\ [][NextRequest]_vars

-----------------------------------------------------------------------------
(* The browser: the monitoring service (services/monitoringService.ts) with *)
(* its four lists and the part of its configuration that decides what the   *)
(* lists hold.  An entry is written as its number in the order of the       *)
(* pushes to its list; `pushed` counts the pushes, `flushing` the flushes   *)
(* that wait for the remote end and `flushes` the flushes begun.            *)

\* Array.prototype.slice(start): from `start`, counted from the end when
\* negative (slice(-0) is slice(0), the whole list)
slice(list, start) ==
  LET from == IF start < 0
              THEN (IF Len(list) + start < 0 THEN 0 ELSE Len(list) + start)
              ELSE (IF start > Len(list) THEN Len(list) ELSE start)
  IN  SubSeq(list, from + 1, Len(list))

\* list.push(entry) and then, over the cap, list = list.slice(-max)
push(list, entry, max) ==
  LET pushed == Append(list, entry)
  IN  IF Len(pushed) > max THEN slice(pushed, 0 - max) ELSE pushed

\* the configuration the service is constructed with
DefaultConfig ==
  [maxLogs |-> MaxLogs, maxMetrics |-> MaxMetrics,
   enableRemoteLogging |-> FALSE, batchSize |-> BatchSize]

logError(m) ==
  [m EXCEPT !.errorLogs = push(@, m.pushed.errorLogs + 1, m.config.maxLogs),
            !.pushed.errorLogs = @ + 1]

\* a metric, and a warning in the error log for a slow operation
recordPerformanceMetric(m, duration) ==
  LET noted ==
        [m EXCEPT !.performanceMetrics =
                     push(@, m.pushed.performanceMetrics + 1,
                          m.config.maxMetrics),
                  !.pushed.performanceMetrics = @ + 1]
  IN  IF duration > 5000 THEN logError(noted) ELSE noted

\* what `performance.now` is inside the module: `performance` there is the
\* module's own export, an object with `measure` alone
performanceNow == Null

\* const startTime = performance.now() stands before the try: with no such
\* function the call throws there, the promise rejects and the finally
\* block that records the metric is never entered
measurePerformance(m, duration) ==
  IF performanceNow = Null THEN m ELSE recordPerformanceMetric(m, duration)

\* a usage entry, and a warning in the error log for a high usage
logTokenUsage(m, inputTokens, outputTokens) ==
  LET noted ==
        [m EXCEPT !.tokenUsage =
                     push(@, m.pushed.tokenUsage + 1, m.config.maxMetrics),
                  !.pushed.tokenUsage = @ + 1]
  IN  IF inputTokens + outputTokens > 10000 THEN logError(noted) ELSE noted

\* a request entry, an error in the error log for a failed request and a
\* warning for a slow one
logApiRequest(m, status, duration) ==
  LET noted ==
        [m EXCEPT !.apiRequests =
                     push(@, m.pushed.apiRequests + 1, m.config.maxMetrics),
                  !.pushed.apiRequests = @ + 1]
      failed == IF status >= 400 THEN logError(noted) ELSE noted
  IN  IF duration > 3000 THEN logError(failed) ELSE failed

\* the four lists emptied
clearData(m) ==
  [m EXCEPT !.errorLogs = <<>>, !.performanceMetrics = <<>>,
            !.tokenUsage = <<>>, !.apiRequests = <<>>]

\* this.config = { ...this.config, ...newConfig }
updateConfig(m, newConfig) ==
  [m EXCEPT !.config = [k \in DOMAIN m.config |->
                          IF k \in DOMAIN newConfig THEN newConfig[k]
                          ELSE m.config[k]]]

\* flushLogs as the timer starts it, up to its await: nothing to do with
\* remote logging off or no error logs, else a batch is read and sent
flushLogs(m) ==
  IF ~m.config.enableRemoteLogging \/ Len(m.errorLogs) = 0 THEN m
  ELSE [m EXCEPT !.flushing = @ + 1]

\* flushLogs after its await: the first batchSize entries of the list as it
\* is by then are cut
flushed(m) ==
  [m EXCEPT !.errorLogs = slice(@, m.config.batchSize),
            !.flushing = @ - 1]

\* the service after some logging calls that left the error log, the
\* token-usage and the API-request list empty or one entry short of the
\* cap; no call fills the performance metrics
InitMonitoring ==
  /\ WorkerInit
  /\ \E e \in {0, MaxLogs - 1}, t, a \in {0, MaxMetrics - 1} :
       browser = [service |-> "monitoring",
                  errorLogs |-> [i \in 1..e |-> i],
                  performanceMetrics |-> <<>>,
                  tokenUsage |-> [i \in 1..t |-> i],
                  apiRequests |-> [i \in 1..a |-> i],
                  pushed |-> [errorLogs |-> e, performanceMetrics |-> 0,
                              tokenUsage |-> t, apiRequests |-> a],
                  config |-> DefaultConfig,
                  flushing |-> 0,
                  flushes |-> 0,
                  calls |-> 0]

\* MaxLogCalls further logging calls, any changes of the configuration,
\* clearings, and MaxFlushes flushes on the timer
NextMonitoring ==
  \/ /\ browser.calls < MaxLogCalls
     /\ browser' = logError([browser EXCEPT !.calls = @ + 1])
     /\ UNCHANGED worker
  \/ /\ browser.calls < MaxLogCalls
     /\ \E duration \in {120, 6000} :
          browser' = measurePerformance(
                       [browser EXCEPT !.calls = @ + 1], duration)
     /\ UNCHANGED worker
  \/ /\ browser.calls < MaxLogCalls
     /\ \E outputTokens \in {500, 9500} :
          browser' = logTokenUsage(
                       [browser EXCEPT !.calls = @ + 1], 1000, outputTokens)
     /\ UNCHANGED worker
  \/ /\ browser.calls < MaxLogCalls
     /\ \E status \in {200, 500}, duration \in {120, 4000} :
          browser' = logApiRequest(
                       [browser EXCEPT !.calls = @ + 1], status, duration)
     /\ UNCHANGED worker
  \/ /\ browser' = clearData(browser)
     /\ UNCHANGED worker
  \/ /\ \E newConfig \in
            {[maxLogs |-> 2], [maxLogs |-> 0], [maxLogs |-> 2 * MaxLogs],
             [maxMetrics |-> 2], [enableRemoteLogging |-> TRUE]} :
          browser' = updateConfig(browser, newConfig)
     /\ UNCHANGED worker
  \/ /\ browser.flushes < MaxFlushes
     /\ browser' = flushLogs([browser EXCEPT !.flushes = @ + 1])
     /\ UNCHANGED worker
  \/ /\ browser.flushing > 0
     /\ browser' = flushed(browser)
     /\ UNCHANGED worker

SpecMonitoring == InitMonitoring /\ [][NextMonitoring]_vars

-----------------------------------------------------------------------------
(* The browser: the client cache of services/openRouterService.ts (lines   *)
(* 7-86). The Map is the sequence of its entries in insertion order; the   *)
(* key of the empty string is the empty sequence.                          *)

\* the keys the calls use: the empty key (what generateKey returns when it
\* fails) and numbered keys
Key(n) == <<"k">> \o toString(n)

CacheKeys == {EmptyText, Key(1), Key(maxSize + 1)}

\* the comparison of line 34 made one TTL late
expiredLate(cached, now) == now > cached.expires + DefaultTtl

\* "Date.now() > cached.expires" (line 34)
expired(cached, now) == now > cached.expires

NoEntry == [key |-> EmptyText, data |-> Null, expires |-> 0]

\* what a call left for the claims to read: its time, the entry a get found,
\* what it returned, and for a set the size and first key before and whether
\* it removed an entry
CacheOp(name, key, found, entry, returned, sizeBefore, firstBefore, removed) ==
  [name |-> name, at |-> browser.now, key |-> key, found |-> found, entry |-> entry,
   returned |-> returned, sizeBefore |-> sizeBefore,
   firstBefore |-> firstBefore, removed |-> removed]

\* a cache filled by sets of the given keys at the start time with the
\* default TTL
InitCache ==
  /\ WorkerInit
  /\ \E keys \in {<<>>,
                  [i \in 1..maxSize |-> Key(i)],
                  [i \in 1..maxSize |->
                     IF i = 1 THEN EmptyText ELSE Key(i - 1)]} :
       browser =
         [service |-> "cache",
          now |-> StartTime,
          cache |-> [i \in DOMAIN keys |->
                       [key |-> keys[i], data |-> "A",
                        expires |-> StartTime + DefaultTtl]],
          op |-> [name |-> "none", at |-> StartTime, key |-> EmptyText,
                  found |-> FALSE, entry |-> NoEntry, returned |-> Null,
                  sizeBefore |-> 0, firstBefore |-> EmptyText,
                  removed |-> FALSE],
          calls |-> 0]

\* clientCache.get (lines 28-44)
get(key) ==
  /\ browser.calls < MaxCacheCalls
  /\ LET at == {i \in DOMAIN browser.cache : browser.cache[i].key = key}
         cached == browser.cache[CHOOSE i \in at : TRUE]
     IN  browser' =
           IF at = {}
           THEN [browser EXCEPT
                   !.op = CacheOp("get", key, FALSE, NoEntry, Null,
                                  Len(browser.cache), EmptyText, FALSE),
                   !.calls = @ + 1]
           ELSE IF expired(cached, browser.now)
           THEN [browser EXCEPT
                   !.cache = SelectSeq(@, LAMBDA e : e.key # key),
                   !.op = CacheOp("get", key, TRUE, cached, Null,
                                  Len(browser.cache), EmptyText, TRUE),
                   !.calls = @ + 1]
           ELSE [browser EXCEPT
                   !.op = CacheOp("get", key, TRUE, cached, cached.data,
                                  Len(browser.cache), EmptyText, FALSE),
                   !.calls = @ + 1]
  /\ UNCHANGED worker

\* clientCache.set (lines 47-66): at maxSize entries or more it deletes the
\* Map's first key, provided that key is truthy; Map.set puts a new key last
\* and leaves a key it already holds in its place
set(key, data, ttl) ==
  /\ browser.calls < MaxCacheCalls
  /\ LET cache == browser.cache
         firstKey == IF Len(cache) = 0 THEN EmptyText ELSE cache[1].key
         removes == Len(cache) >= maxSize /\ firstKey # EmptyText
         kept == IF removes THEN Tail(cache) ELSE cache
         entry == [key |-> key, data |-> data, expires |-> browser.now + ttl]
         at == {i \in DOMAIN kept : kept[i].key = key}
     IN  browser' =
           [browser EXCEPT
              !.cache = IF at = {} THEN Append(kept, entry)
                        ELSE [kept EXCEPT ![CHOOSE i \in at : TRUE] = entry],
              !.op = CacheOp("set", key, FALSE, NoEntry, Null, Len(cache),
                             firstKey, removes),
              !.calls = @ + 1]
  /\ UNCHANGED worker

\* clientCache.clear (lines 70-77)
clear ==
  /\ browser.calls < MaxCacheCalls
  /\ browser' = [browser EXCEPT
                   !.cache = <<>>,
                   !.op = CacheOp("clear", EmptyText, FALSE, NoEntry, Null,
                                  Len(browser.cache), EmptyText, FALSE),
                   !.calls = @ + 1]
  /\ UNCHANGED worker

\* time passes between two calls
ElapseCache ==
  /\ browser.calls < MaxCacheCalls
  /\ \E step \in {ShortTtl, DefaultTtl} :
       browser' = [browser EXCEPT !.now = @ + step, !.calls = @ + 1]
  /\ UNCHANGED worker

NextCache ==
  \/ \E key \in CacheKeys : get(key)
  \/ \E key \in CacheKeys, data \in {"A", "B"}, ttl \in {ShortTtl, DefaultTtl} :
       set(key, data, ttl)
  \/ clear
  \/ ElapseCache

SpecCache == InitCache /\ [][NextCache]_vars

-----------------------------------------------------------------------------
(* The browser: the chat session of the App component (unnamed/part_005):  *)
(* handleUserInput of the first component of the file (lines 1-503), cut   *)
(* at its awaits, and the effect on appStep.  React commits the state      *)
(* updates of one stretch of code together when they are batched (always   *)
(* inside an event handler and inside an effect; after an await only with  *)
(* automatic batching) and one by one otherwise.  A commit that changed    *)
(* appStep or formData leaves the effect to run: React runs it before it   *)
(* renders again, at the end of a commit made in an event handler, and     *)
(* otherwise in a task of its own, so that after the batched commit of a   *)
(* stretch that follows an await the effect has not run yet (`effect`).    *)
(* A variant is the object the parser gave, a function from its keys to    *)
(* their values, the values written as strings with "" for every falsy     *)
(* one.  null and the empty array are both the empty sequence.             *)

\* what an awaited parser gives: an array of variants, or an error thrown
Thrown == [threw |-> TRUE, data |-> <<>>]
Returned(data) == [threw |-> FALSE, data |-> data]

\* variant.key is truthy
truthy(variant, key) == key \in DOMAIN variant /\ variant[key] # ""

\* what the parser settles with: an error, nothing, or variants: one with
\* every required field, tissue paper (which needs no depth), one with a
\* product type and little else, one without a product type, the empty
\* object
ParseResults ==
  LET Box == [productType |-> "box", material |-> "kraft", width |-> "10",
              height |-> "10", depth |-> "5", quantity |-> "500"]
      Tissue == [productType |-> "TISSUE_PAPER", material |-> "tissue",
                 width |-> "50", height |-> "70", quantity |-> "500"]
      Typed == [productType |-> "box", quantity |-> "500"]
      Untyped == [material |-> "kraft", quantity |-> "500"]
      EmptyObject == [key \in {} |-> ""]
  IN  {Thrown, Returned(<<>>), Returned(<<Untyped>>),
       Returned(<<EmptyObject>>), Returned(<<Box, Untyped>>)}
      \cup {Returned(<<a>>) : a \in {Box, Tissue, Typed}}
      \cup {Returned(<<a, b>>) : a, b \in {Box, Typed}}

\* the negation of the test of lines 177 and 351 on a returned array
accepted(result) ==
  /\ ~result.threw /\ Len(result.data) > 0
  /\ \A i \in DOMAIN result.data :
       /\ DOMAIN result.data[i] # {}
       /\ truthy(result.data[i], "productType")

\* parsedDataArray.map(data => ({ ...data, parsedUserRequest: userInput }))
withRequest(data, userInput) ==
  [i \in DOMAIN data |->
     [key \in DOMAIN data[i] \cup {"parsedUserRequest"} |->
        IF key = "parsedUserRequest" THEN userInput ELSE data[i][key]]]

\* the negation of the test of lines 226 and 652 on a variant
calculable(variant) ==
  /\ truthy(variant, "productType") /\ truthy(variant, "material")
  /\ truthy(variant, "width") /\ truthy(variant, "height")
  /\ truthy(variant, "depth") \/ variant.productType = "TISSUE_PAPER"
  /\ truthy(variant, "quantity")

\* the messages a user sends: a free text, yes, no, the statistics command
UserInputs == {"order text", "da", "net", "statistika"}

\* one setState call, written <<field, value>>
setState(b, update) == [b EXCEPT ![update[1]] = update[2]]

RECURSIVE setAll(_, _)
setAll(b, updates) ==
  IF updates = <<>> THEN b
  ELSE setAll(setState(b, Head(updates)), Tail(updates))

\* the state updates the effect of lines 110-146 makes on a committed state
useEffect(b) ==
  IF b.appStep = "awaiting_confirmation"
     /\ b.prevAppStepRef = "parsing_description"
  THEN IF Len(b.formData) > 0
          /\ \A i \in DOMAIN b.formData :
               /\ truthy(b.formData[i], "parsedUserRequest")
               /\ Cardinality(DOMAIN b.formData[i]) > 1
       THEN <<>>
       ELSE << <<"appStep", "awaiting_description">>, <<"formData", <<>>>> >>
  ELSE IF b.appStep = "displaying_result"
          /\ b.prevAppStepRef = "calculating_cost"
  THEN << <<"lastCalculatedFormData", b.formData>>,
          <<"appStep", "awaiting_feedback_or_new_order">> >>
  ELSE <<>>

\* a render and its commit: the effect the commit before left runs first,
\* the ref takes its step (lines 143-145) and what the effect sets joins the
\* updates queued; the commit leaves the effect to run when appStep or
\* formData (the effect's dependencies that change) changed
commit(b, updates) ==
  LET all == updates \o (IF b.effect THEN useEffect(b) ELSE <<>>)
      ran == IF b.effect THEN [b EXCEPT !.prevAppStepRef = b.appStep]
             ELSE b
      next == setAll(ran, all)
  IN  [next EXCEPT
         !.effect = \/ next.appStep # b.appStep
                    \/ \E i \in DOMAIN all : all[i][1] = "formData"]

\* the effects left to run are run, each with the commit of what it set
RECURSIVE flushSync(_)
flushSync(b) == IF b.effect THEN flushSync(commit(b, <<>>)) ELSE b

\* the state updates of a stretch run from an event handler: one commit,
\* its effect run at its end
batchedUpdates(b, updates) == flushSync(commit(b, updates))

\* the state updates of a stretch that follows an await: with automatic
\* batching one commit whose effect is left to a later task, otherwise a
\* commit for each update, the effect of each run before the next render
\* (the last update of every such stretch is followed by another render or
\* changes neither appStep nor formData)
RECURSIVE dispatch(_, _, _)
dispatch(b, updates, batched) ==
  IF batched THEN commit(b, updates)
  ELSE IF updates = <<>> THEN b
  ELSE dispatch(flushSync(commit(b, <<Head(updates)>>)), Tail(updates),
                FALSE)

isInputDisabled(b) ==
  \/ b.isLoading
  \/ b.appStep \in {"parsing_description", "calculating_cost",
                    "processing_correction"}

\* the loop of lines 220-304 from variant i on: the first variant that has
\* every required field is sent for calculation (the await); 0 when the loop
\* runs to its end skipping
nextCalculated(formData, i) ==
  IF \E j \in i..Len(formData) : calculable(formData[j])
  THEN CHOOSE j \in i..Len(formData) :
         /\ calculable(formData[j])
         /\ \A k \in i..(j - 1) : ~calculable(formData[k])
  ELSE 0

\* after the loop (lines 309-310)
afterLoop == << <<"isLoading", FALSE>>, <<"appStep", "displaying_result">> >>

\* the finally block of the feedback branch (lines 377-387)
finallyBlock ==
  << <<"isLoading", FALSE>>, <<"appStep", "awaiting_description">>,
     <<"formData", <<>>>>, <<"lastCalculatedFormData", <<>>>> >>

\* the component as mounted; `handling` and `parsed` are observers: what the
\* handler called last is doing and the array the last accepted parse gave
InitChat ==
  /\ WorkerInit
  /\ \E batched \in BOOLEAN :
       browser = [service |-> "chat", batched |-> batched,
                  appStep |-> "awaiting_description",
                  prevAppStepRef |-> "awaiting_description",
                  formData |-> <<>>, lastCalculatedFormData |-> <<>>,
                  isLoading |-> FALSE, effect |-> FALSE,
                  pc |-> "idle", i |-> 0, userInput |-> "",
                  handling |-> "none", parsed |-> <<>>]

\* handleUserInput from the submit handler up to its first await or its
\* end; whatever the branch, the message of the user is added (line 153),
\* so that a render and commit follows
handleUserInput(userInput) ==
  /\ browser.pc = "idle" /\ ~isInputDisabled(browser)
  /\ LET b == [browser EXCEPT !.handling = "other", !.userInput = userInput]
         first == nextCalculated(browser.formData, 1)
     IN  browser' =
           IF userInput = "statistika" THEN batchedUpdates(b, <<>>)
           ELSE IF browser.appStep = "awaiting_description"
           THEN [batchedUpdates(b, << <<"isLoading", TRUE>>,
                                     <<"appStep", "parsing_description">>,
                                     <<"formData", <<>>>>,
                                     <<"lastCalculatedFormData", <<>>>> >>)
                   EXCEPT !.pc = "parse", !.handling = "description"]
           ELSE IF browser.appStep = "awaiting_confirmation"
           THEN IF userInput = "da"
                THEN [batchedUpdates(b, << <<"isLoading", TRUE>>,
                                          <<"appStep", "calculating_cost">> >>
                                        \o (IF first = 0 THEN afterLoop
                                            ELSE <<>>))
                        EXCEPT !.pc = IF first = 0 THEN "idle" ELSE "calculate",
                               !.i = first, !.handling = "yes"]
                ELSE IF userInput = "net"
                THEN batchedUpdates(b, << <<"appStep", "awaiting_description">>,
                                         <<"formData", <<>>>>,
                                         <<"lastCalculatedFormData", <<>>>> >>)
                ELSE batchedUpdates(b, <<>>)
           ELSE IF browser.appStep = "awaiting_feedback_or_new_order"
           THEN [batchedUpdates(b, << <<"isLoading", TRUE>>,
                                     <<"appStep", "processing_correction">> >>)
                   EXCEPT !.pc = "correction", !.handling = "feedback"]
           ELSE IF browser.appStep = "error_state"
           THEN batchedUpdates(b, << <<"appStep", "awaiting_description">>,
                                    <<"formData", <<>>>>,
                                    <<"lastCalculatedFormData", <<>>>> >>)
           ELSE batchedUpdates(b, <<>>)
  /\ UNCHANGED worker

\* the effect a commit left runs in a task of its own
Effect ==
  /\ browser.effect
  /\ browser' = commit(browser, <<>>)
  /\ UNCHANGED worker

\* the parser awaited at line 174 settles (lines 175-208)
Parsed(result) ==
  /\ browser.pc = "parse"
  /\ browser' =
       [dispatch(browser,
                 (IF accepted(result)
                  THEN << <<"formData",
                            withRequest(result.data, browser.userInput)>>,
                          <<"appStep", "awaiting_confirmation">> >>
                  ELSE << <<"appStep", "awaiting_description">> >>)
                 \o << <<"isLoading", FALSE>> >>,
                 browser.batched)
          EXCEPT !.pc = "idle",
                 !.parsed = IF accepted(result)
                            THEN withRequest(result.data, browser.userInput)
                            ELSE @]
  /\ UNCHANGED worker

\* parsePriceCorrectionFeedback awaited at line 330 settles: corrections
\* found, none found (the message is a new order), or an error
Corrected(result) ==
  /\ browser.pc = "correction"
  /\ browser' =
       IF result = "none"
       THEN [dispatch(browser, << <<"appStep", "parsing_description">>,
                                 <<"formData", <<>>>>,
                                 <<"lastCalculatedFormData", <<>>>> >>,
                      browser.batched)
               EXCEPT !.pc = "new order", !.handling = "new order"]
       ELSE [dispatch(browser,
                      (IF result = "thrown"
                       THEN << <<"appStep", "awaiting_description">> >>
                       ELSE <<>>) \o finallyBlock,
                      browser.batched)
               EXCEPT !.pc = "idle"]
  /\ UNCHANGED worker

\* the parser awaited at line 348 settles (lines 349-361): the branch ends
\* with a return inside the try, so the finally block runs after it
NewOrderParsed(result) ==
  /\ browser.pc = "new order"
  /\ browser' =
       [dispatch(browser,
                 (IF result.threw
                  THEN << <<"appStep", "awaiting_description">> >>
                  ELSE IF accepted(result)
                  THEN << <<"formData",
                            withRequest(result.data, browser.userInput)>>,
                          <<"appStep", "awaiting_confirmation">>,
                          <<"isLoading", FALSE>> >>
                  ELSE << <<"appStep", "awaiting_description">>,
                          <<"isLoading", FALSE>> >>)
                 \o finallyBlock,
                 browser.batched)
          EXCEPT !.pc = "idle",
                 !.handling = IF accepted(result) THEN "new order parsed"
                              ELSE @,
                 !.parsed = IF accepted(result)
                            THEN withRequest(result.data, browser.userInput)
                            ELSE @]
  /\ UNCHANGED worker

\* the estimate awaited at line 235 settles, with a text or an error (both
\* only add messages), and the loop goes on to the next await or to its end
\* (lines 236-311); the handler ends there, the effect of lines 137-140 is
\* left to run
Estimated(settled) ==
  /\ browser.pc = "calculate"
  /\ LET next == nextCalculated(browser.formData, browser.i + 1)
     IN  browser' =
           IF next # 0 THEN [commit(browser, <<>>) EXCEPT !.i = next]
           ELSE [dispatch(browser, afterLoop, browser.batched)
                   EXCEPT !.pc = "idle", !.i = 0]
  /\ UNCHANGED worker

NextChat ==
  \/ \E userInput \in UserInputs : handleUserInput(userInput)
  \/ \E result \in ParseResults : Parsed(result)
  \/ \E result \in {"corrections", "none", "thrown"} : Corrected(result)
  \/ \E result \in ParseResults : NewOrderParsed(result)
  \/ \E settled \in {"text", "error"} : Estimated(settled)
  \/ Effect

\* every awaited call settles: the service calls make a bounded number of
\* attempts and then return or throw; and React runs the effect a commit
\* left
SpecChat ==
  InitChat /\ [][NextChat]_vars
    /\ WF_vars(\E result \in ParseResults : Parsed(result))
    /\ WF_vars(\E result \in {"corrections", "none", "thrown"} :
                 Corrected(result))
    /\ WF_vars(\E result \in ParseResults : NewOrderParsed(result))
    /\ WF_vars(\E settled \in {"text", "error"} : Estimated(settled))
    /\ WF_vars(Effect)

-----------------------------------------------------------------------------
(* The documented task classes (the model-mismatch fix notes) and the      *)
(* specification's cache eligibility, which the claims below refer to      *)

isExtractionTask(userMessage) ==
  \/ includes(userMessage, <<"Izvleki", "parametry">>)
  \/ includes(userMessage, <<"JSON-massiv">>)
  \/ includes(userMessage, <<"struktura:">>)

isPriceCorrectionTask(userMessage) ==
  \/ includes(userMessage, <<"korrekcii", "ceny">>)
  \/ includes(userMessage, <<"utochneniem">>)
  \/ includes(userMessage, <<"correctedPricePerUnit">>)

isCostEstimationTask(userMessage) ==
  \/ includes(userMessage, <<"rasschitaj", "stoimost">>)
  \/ includes(userMessage, <<"primernaya", "stoimost">>)
  \/ includes(userMessage, <<"baza", "znanij">>)
  \/ includes(userMessage, <<"pravila", "cenoobrazovaniya">>)

\* the documented task type: the first class that matches, in this order
taskType(userMessage) ==
  IF isExtractionTask(userMessage) THEN "extraction"
  ELSE IF isPriceCorrectionTask(userMessage) THEN "priceCorrection"
  ELSE IF isCostEstimationTask(userMessage) THEN "costEstimation"
  ELSE "general"

\* the JSON-only system instruction documented for extraction tasks
SystemPromptExtraction == "extraction-assistant-strict-json"

\* eligibility for the response cache as the specification words it, on the
\* fields a request of this model carries: temperature at most 0.5 and an
\* extraction or price-correction text
isCacheable(request) ==
  /\ request.body.json = "object"
  /\ request.body.hasTemperature => request.body.temperature <= 5
  /\ \/ isExtractionTask(userContent(request.body))
     \/ isPriceCorrectionTask(userContent(request.body))

-----------------------------------------------------------------------------
(* Readings of the state used by the claims *)

\* the request handled last came with the configured key
LastAuthenticated ==
  last.request.apiKey # Null /\ last.request.apiKey = Secret

\* the month's ledger entry as the handler would read it
ledger(m) == existingUsage(KV, m)

StoreKeys ==
  {rateLimitKey(ip) : ip \in ClientIPs} \cup {usageKey(m) : m \in Months}

\* the stages of a request in the order the specification gives them
PipelineOrder ==
  <<"Validator", "Authenticator", "RateLimiter", "CacheLookup", "ModelRouter",
    "UpstreamClient", "UsageRecorder", "CacheStore">>

IsPipelineStage(stage) == \E k \in DOMAIN PipelineOrder : PipelineOrder[k] = stage

Rank(order, stage) == CHOOSE i \in DOMAIN order : order[i] = stage

\* the stages ran one after another as `order` lists them
InOrder(order, stages) ==
  /\ \A i \in DOMAIN stages : \E k \in DOMAIN order : order[k] = stages[i]
  /\ \A i, j \in DOMAIN stages :
        i < j => Rank(order, stages[i]) < Rank(order, stages[j])

\* the upstream call of the last exchange got a successful, readable answer
UpstreamSucceeded ==
  /\ last.calls >= 1
  /\ last.up.net = "ok" /\ ok(last.up.status) /\ last.up.json = "object"

\* the last stage of the last exchange
LastStage == last.stages[Len(last.stages)]

\* the stage that ended the last exchange with an error ran last, and the
\* stages after it left no trace: no counter written, no upstream call, no
\* answer counted
ErrorEndsPipeline ==
  /\ ~LastAuthenticated
       => (last.stages = <<"Authenticator">> /\ ~last.passed /\ last.calls = 0)
  /\ (LastAuthenticated /\ last.before > RateLimit)
       => (LastStage = "RateLimiter" /\ ~last.passed /\ last.calls = 0)
  /\ (LastAuthenticated /\ last.passed /\ last.request.body.json = "invalid")
       => (LastStage = "RequestParsing" /\ last.calls = 0)
  /\ (last.calls >= 1 /\ ~UpstreamSucceeded)
       => (LastStage = "UpstreamClient" /\ ~last.okCall)

\* the upstream answered the call of the last exchange with an error status
UpstreamRefused ==
  last.calls >= 1 /\ last.up.net = "ok" /\ ~ok(last.up.status)

\* the error statuses of the provider: authorization, billing, rate limit
\* and its internal errors
ProviderError(status) ==
  status \in {401, 402, 429} \/ (status >= 500 /\ status <= 599)

\* the body misses what the Validator requires of it
MalformedBody(body) ==
  \/ body.json # "object"
  \/ ~body.hasContents
  \/ Len(body.contents) = 0
  \/ Len(body.contents) > 10

-----------------------------------------------------------------------------
(* Claims *)

\* C1: every request other than a preflight whose X-API-Key header is missing
\* or differs from the configured secret is answered 401, and no call to the
\* upstream provider is made for it.
C1_BadCredentialIs401 ==
  (last.handled /\ last.request.method # "OPTIONS" /\ ~LastAuthenticated)
    => (last.response.status = 401 /\ last.calls = 0)

C1_Witness ==
  /\ last.handled
  /\ last.request.method = "POST"
  /\ last.request.apiKey = "other-key"
  /\ last.response = TextResponse(401, "Unauthorized")

\* C2 (as claimed): a request that passes the key check and the rate limiter
\* and whose body is not valid JSON, or has no contents, or a contents list of
\* length 0 or above 10, is answered 400 without a call to the upstream.
C2_MalformedBodyIs400 ==
  (last.handled /\ last.request.method # "OPTIONS" /\ LastAuthenticated
     /\ last.before <= RateLimit /\ MalformedBody(last.request.body))
    => (last.response.status = 400 /\ last.calls = 0)

\* C3 (as claimed): once the count stored for a caller's IP has exceeded 100,
\* every further request from that IP that carries the key is answered 429
\* and causes no upstream call, until the stored counter expires.
C3_OverLimitIs429 ==
  (last.handled /\ last.request.method # "OPTIONS" /\ LastAuthenticated
     /\ last.over)
    => (last.response = TextResponse(429, "Rate limit exceeded")
        /\ last.calls = 0)

\* C4 (as claimed): of the requests of one caller IP handled one after another
\* within 60 seconds, at most 100 get past the rate limiter.
C4_AtMost100PerMinute ==
  ~overlapped => \A ip \in ClientIPs : admitted[ip] <= RateLimit

\* C5 (as claimed): when a cache-eligible request was answered from a
\* successful upstream call and the identical request comes again before any
\* time has passed, the second response equals the first and the second
\* request makes no upstream call.
C5_RepeatServedFromCache ==
  (prev.handled /\ prev.okCall /\ last.handled
     /\ last.request = prev.request /\ isCacheable(last.request))
    => (last.calls = 0 /\ last.response = prev.response)

\* C6: a request with temperature 0.8 is never cached: each time it gets past
\* the key check and the rate limiter it is sent upstream (never a hit), a
\* successful answer carries the text of this very upstream call, and the
\* store holds nothing but rate-limit counters and usage ledgers.
C6_Temperature08NeverCached ==
  (last.handled /\ last.request.body.hasTemperature
     /\ last.request.body.temperature = 8 /\ last.passed)
    => /\ last.calls = 1
       /\ last.okCall => last.response.text = last.up.content
       /\ DOMAIN KV \subseteq StoreKeys

C6_Witness ==
  /\ prev.handled /\ last.handled
  /\ prev.request = last.request
  /\ last.request.body.temperature = 8
  /\ isExtractionTask(userContent(last.request.body))
  /\ prev.okCall /\ last.okCall
  /\ prev.calls = 1 /\ last.calls = 1
  /\ prev.response.text = AnswerA
  /\ last.response.text = AnswerB

\* C7 (as claimed): a message holding an extraction marker phrase is sent
\* upstream with the cheaper model and the JSON-only system instruction,
\* whatever else the message holds.
C7_ExtractionSelectsHaikuAndJsonPrompt ==
  (last.handled /\ last.calls = 1 /\ isExtractionTask(last.sent.user))
    => (last.sent.model = ModelHaiku
        /\ last.sent.system = SystemPromptExtraction)

\* every invocation begun has answered
Quiet == \A p \in Invocations : ~running(inflight[p])

\* C8 (as claimed): after N successful upstream calls handled one after
\* another in a month, that month's ledger entry holds the sum of the usage
\* the calls reported and a request count of N.
C8_LedgerCountsEveryCall ==
  (~overlapped /\ Quiet)
    => \A m \in Months :
         /\ ledger(m).totalTokens = tally[m].tokens
         /\ ledger(m).requests = tally[m].okCalls

\* C8 (amended): after N successful upstream calls handled one after another
\* and answered in a month, each call that reported usage within 30 days of
\* the one before it, that month's ledger entry holds, for 30 days from the
\* last of them, the sum of the usage the calls reported and a request count
\* equal to the number of those calls whose answer carried a usage block;
\* 30 days after the last of them the entry is gone.
C8_LedgerCountsCallsWithUsage ==
  (~overlapped /\ Quiet)
    => \A m \in Months :
         /\ (~tally[m].lapsed /\ tally[m].idle < UsageTtl)
              => /\ ledger(m).totalTokens = tally[m].tokens
                 /\ ledger(m).requests = tally[m].withUsage
         /\ tally[m].idle >= UsageTtl => ~KVhas(KV, usageKey(m))

\* three calls in a month, 15 days from each to the next: the second and the
\* third reported usage, and the entry has its 30 days from the third
C8_Witness ==
  /\ ~overlapped /\ Quiet
  /\ month = 1 /\ days = 2 * LongStep
  /\ tally[1] = [okCalls |-> 3, withUsage |-> 2, tokens |-> 67, idle |-> 0,
                  lapsed |-> FALSE]
  /\ KV[usageKey(1)].ttl = UsageTtl
  /\ ledger(1) = [totalTokens |-> 67, requests |-> 2]

\* C9: for a successful upstream response the public response is a 200-class
\* JSON answer whose text is the upstream choices[0].message.content
\* unchanged, and whose promptTokenCount / candidatesTokenCount are the
\* upstream prompt_tokens / completion_tokens.
C9_ResponseTranslation ==
  (last.handled /\ last.okCall)
    => /\ last.response.kind = "gemini"
       /\ last.response.status = last.up.status
       /\ last.up.hasContent => last.response.text = last.up.content
       /\ (last.up.hasUsage /\ last.up.hasPrompt)
            => last.response.promptTokenCount = last.up.prompt_tokens
       /\ (last.up.hasUsage /\ last.up.hasCompletion)
            => last.response.candidatesTokenCount = last.up.completion_tokens

C9_Witness ==
  /\ last.handled /\ last.okCall
  /\ last.up = UpstreamAnswer(AnswerA, 50, 10)
  /\ last.response.text = AnswerA
  /\ last.response.promptTokenCount = 50
  /\ last.response.candidatesTokenCount = 10

\* C10 (as claimed): GET /health is answered 200 with a body whose status
\* field is "healthy", whatever the upstream and the store do.
C10_HealthIsHealthy ==
  (last.handled /\ last.request.method = "GET"
     /\ last.request.path = PathHealth)
    => (last.response.status = 200 /\ last.response.kind = "healthy")

\* C11 (as claimed): the stages of a request run in the order Validator,
\* Authenticator, Rate Limiter, cache lookup, Model Router, Upstream Client,
\* Usage Recorder, cache store: those of them that ran did so in that order,
\* each after all the stages before it (the Usage Recorder runs only for an
\* answer that reports usage), and a stage that ends the request with an
\* error is the last to run.
C11_StagesInPipelineOrder ==
  (last.handled /\ last.request.method # "OPTIONS")
    => LET ran == SelectSeq(last.stages, IsPipelineStage)
       IN  /\ InOrder(PipelineOrder, ran)
           /\ \A i \in DOMAIN ran :
                 \A k \in 1..(Rank(PipelineOrder, ran[i]) - 1) :
                   PipelineOrder[k] # "UsageRecorder"
                     => \E j \in 1..(i - 1) : ran[j] = PipelineOrder[k]
           /\ ErrorEndsPipeline

\* C12 (as claimed): when env.KV throws during the rate limiter's read or
\* write, the request that carries the key and a well-formed body still goes
\* to the upstream and is not answered by a server error for that failure.
C12_RateLimiterFailsOpen ==
  (last.handled /\ LastAuthenticated /\ last.before <= RateLimit
     /\ last.kv \in {"get-rate", "put-rate"}
     /\ last.request.body.json = "object")
    => (last.calls = 1 /\ last.response # UncaughtResponse)

\* C13 (as claimed): when env.KV throws while the usage ledger is read or
\* written after a successful upstream call, the caller still gets the
\* successful response with the model's output.
C13_LedgerFailureIsInvisible ==
  (last.handled /\ UpstreamSucceeded /\ last.kv \in {"get-usage", "put-usage"})
    => last.response = GeminiResponse(last.up.status, geminiResponse(last.up))

\* C14 (as claimed): the counter is incremented atomically: whenever no
\* invocation stands between its read and its write of the counter, and no
\* counter has expired, the stored count of a caller IP is the number of its
\* requests admitted so far.
C14_CounterCountsAdmitted ==
  (\A p \in Invocations : inflight[p].pc # "count-read")
    => \A ip \in ClientIPs : requestCount(KV, ip) = admitted[ip]

\* C15: the ledger update is a plain read-modify-write: when the updates of
\* two invocations interleave so that both read the ledger before either
\* writes it (the later writer finds the entry rewritten since its read), an
\* update is lost: the ledger's token count ends below the sum of the usage
\* reported to the calls that wrote it, and its request count below their
\* number.
C15_InterleavedUpdatesLoseOne ==
  (last.handled /\ last.wrote /\ last.raced)
    => /\ ledger(last.m).totalTokens < tally[last.m].tokens
       /\ ledger(last.m).requests < tally[last.m].withUsage

C15_Witness ==
  /\ last.handled /\ last.wrote /\ last.raced
  /\ last.up = UpstreamAnswer(AnswerB, 7, 0)
  /\ tally[last.m].okCalls = 2
  /\ tally[last.m].withUsage = 2
  /\ tally[last.m].tokens = 67
  /\ ledger(last.m) = [totalTokens |-> 7, requests |-> 1]

\* C16: the proxy never retries: whatever the path and whatever the upstream
\* does, one request causes at most one call to the upstream, and the call
\* carries the body built from that request.
C16_AtMostOneUpstreamCall ==
  last.handled
    => /\ last.calls <= 1
       /\ last.calls = 1
            => last.sent = openRouterBody(last.request.path, last.request.body)
       /\ last.calls = 0 => last.sent = NoCall

C16_Witness ==
  /\ last.handled
  /\ last.calls = 1
  /\ last.up = UpstreamError(500, "null")
  /\ last.response = ErrorResponse(500, "null")

\* C17 (as claimed): when the call to the upstream fails without a response
\* (network or transport error), the proxy answers 503.
C17_TransportFailureIs503 ==
  (last.handled /\ last.calls >= 1 /\ last.up.net = "error")
    => last.response.status = 503

\* C18: when the upstream answers with an error status s (401, 402, 429 or
\* 5xx), the proxy answers with status s and an error body whose code is s,
\* and the steps in which an invocation takes an answer that is not ok (its
\* status, then its body and the response) leave every month's ledger entry
\* as it was.  A status outside that list which no response with a body may
\* carry (304) is not passed on: new Response throws and the catch answers
\* 500.
C18_UpstreamErrorPassedThrough ==
  /\ [](( last.handled /\ UpstreamRefused /\ ProviderError(last.up.status))
          => /\ last.response.kind = "error"
             /\ last.response.status = last.up.status
             /\ last.response.code = last.up.status
             /\ ~last.okCall)
  /\ [](( last.handled /\ UpstreamRefused /\ last.up.status = 304)
          => /\ last.response = TextResponse(500, "Internal Server Error")
             /\ ~last.okCall)
  /\ [][(\E p \in Invocations :
            \/ /\ inflight[p].pc = "upstream"
               /\ inflight'[p].pc = "error-body"
            \/ /\ inflight[p].pc = "error-body"
               /\ Ended(p))
          => \A m \in Months :
               existingUsage(KV', m) = existingUsage(KV, m)]_vars

C18_Witness ==
  /\ last.handled
  /\ last.up = UpstreamError(402, "invalid")
  /\ last.response = ErrorResponse(402, "{}")
  /\ ledger(month) = [totalTokens |-> 60, requests |-> 1]

\* C19 (as claimed): every error response of the proxy carries a JSON body
\* with a numeric code, a message and a details object.
C19_ErrorsAreJson ==
  (last.handled /\ last.response.status >= 400)
    => /\ last.response.kind = "error"
       /\ last.response.code = last.response.status

\* C20 (as claimed): the temperature sent upstream is the caller's whenever
\* the caller supplies one, 0 included, and 0.7 only when it supplies none.
C20_TemperatureAsSupplied ==
  (last.handled /\ last.calls >= 1)
    => last.sent.temperature =
         IF last.request.body.hasTemperature
         THEN last.request.body.temperature
         ELSE DefaultTemperature

\* C21 (as claimed): a request without a caller IP is never answered 429,
\* however many requests without a caller IP came before it.
C21_AnonymousNeverBlocked ==
  (last.handled /\ last.request.clientIP = Null)
    => ~(last.response.status = 429 /\ last.calls = 0)

\* C22: the cache key is a pure function of the request and tells requests
\* apart: of any two calls of generateKey, the keys are equal exactly when
\* the (model, contents, config) inputs are equal.
C22_KeyTellsRequestsApart ==
  browser.service = "clientCache" =>
    \A i, j \in 1..Len(browser.keys) :
      (browser.keys[i].key = browser.keys[j].key)
        <=> (browser.keys[i].input = browser.keys[j].input)


\* C23 (as claimed): the client sends a request again only after a 429
\* response or a network error: whenever a fetch of a call was followed by
\* another fetch of that call, its answer was a 429 or a rejection, so that a
\* 401, 400 or 5xx response is the last answer the call sees.
C23_ResendOnlyAfter429OrNetworkError ==
  browser.service = "clients" =>
    \A c \in Calls :
      \A i \in 1..Len(browser.calls[c].seen) :
        (i < Len(browser.calls[c].seen) \/ browser.calls[c].pc = "fetch")
          => \/ browser.calls[c].seen[i].settled = "rejected"
             \/ browser.calls[c].seen[i].status = 429

\* the fetches call c has sent
Fetches(c) ==
  Len(browser.calls[c].seen) + (IF browser.calls[c].pc = "fetch" THEN 1 ELSE 0)

\* C24: a call of either client sends at most retryAttempts fetches, whatever
\* the answers and whatever other calls are under way: 3 for
\* makeSecureGeminiRequest and for SecureApiService.request as shipped, and
\* for SecureApiService.request the number its caller gives or else the
\* number the build's environment sets; and a call under way always
\* completes with a result or an error.
C24_AtMostThreeAttemptsThenCompletes ==
  /\ [](browser.service = "clients" =>
          \A c \in Calls :
            /\ ~browser.calls[c].maxAttempts.nan
            /\ Fetches(c) <= browser.calls[c].maxAttempts.value
            /\ browser.calls[c].client = GeminiClient
                 => browser.calls[c].maxAttempts.value = 3
            /\ (browser.calls[c].client = ApiClient
                  /\ browser.api = ConfiguredApi)
                 => browser.calls[c].maxAttempts.value <= 3
            /\ browser.calls[c].pc = "done"
                 => browser.calls[c].outcome \in {"result", "error"})
  /\ \A c \in Calls :
       (browser.service = "clients"
          /\ browser.calls[c].pc \in {"fetch", "body", "delay"})
         ~> (browser.calls[c].pc = "done"
               /\ browser.calls[c].outcome \in {"result", "error"})

C24_Witness ==
  /\ browser.service = "clients"
  /\ browser.api = ConfiguredApi
  /\ \E c \in Calls :
       /\ browser.calls[c].client = GeminiClient
       /\ browser.calls[c].pc = "done"
       /\ browser.calls[c].outcome = "error"
       /\ browser.calls[c].seen
            = <<Seen(Response(500)), Seen(NetworkError), Seen(Response(429))>>
       /\ browser.calls[c].returned = Rejected("Failed to fetch")


\* C25 (as claimed): SecureApiService lets at most maxRequestsPerMinute (100)
\* requests through to the network within one minute, and a call its limiter
\* refuses sends no fetch.
C25_AtMost100PerMinuteThrough ==
  browser.service = "clients" =>
    /\ browser.now - StartTime < 60000
         => browser.through <= MaxRequestsPerMinute
    /\ \A c \in Calls :
         (browser.calls[c].pc = "done" /\ browser.calls[c].attempt = 0)
           => browser.calls[c].seen = <<>>


C27_RejectionLeavesCounter ==
  [][\A p \in Invocations :
       (\/ /\ inflight[p].pc = "count-read"
           /\ inflight'[p].pc = "start"
           /\ last'.response = TextResponse(429, "Rate limit exceeded")
        \/ /\ inflight[p].pc = "start"
           /\ inflight'[p].pc = "count-read")
         => KV' = KV]_vars

C27_Witness ==
  /\ recent # <<>>
  /\ recent[Len(recent)].age = 0
  /\ recent[Len(recent)].limited
  /\ last.handled /\ last.before = RateLimit + 1
  /\ last.response = TextResponse(429, "Rate limit exceeded")
  /\ KV[rateLimitKey(CallerIP)] =
       [value |-> toString(RateLimit + 1), ttl |-> RateTtl - ShortStep]

\* C28: every admitted request stores the count read plus one with a new
\* 60-second expiry, so the caller's counter lives until 60 seconds after the
\* caller's most recent admitted request, whenever the first one came.
C28_ExpiryRestartsOnAdmission ==
  /\ [](LET key == rateLimitKey(CallerIP)
            Admitted == {i \in 1..Len(recent) :
                           recent[i].passed /\ recent[i].since < RateTtl}
        IN  /\ KVhas(KV, key) <=> Admitted # {}
            /\ \A i \in Admitted :
                 (\A j \in Admitted : recent[i].since <= recent[j].since)
                   => KV[key].ttl = RateTtl - recent[i].since)
  /\ [][\A p \in Invocations :
          (inflight[p].pc = "count-read" /\ inflight'[p].pc = "admitted")
            => KV'[rateLimitKey(CallerIP)] =
                 [value |-> toString(inflight[p].count + 1),
                  ttl |-> RateTtl]]_vars

C28_Witness ==
  /\ Len(recent) = 2
  /\ recent[1].passed /\ recent[1].since = ShortStep
  /\ recent[2].passed /\ recent[2].since = 0
  /\ last.handled /\ last.before = RateLimit
  /\ KV[rateLimitKey(CallerIP)] =
       [value |-> toString(RateLimit + 1), ttl |-> RateTtl]

\* C29 (as claimed): the rate limiter answers 429 only to a caller who has
\* sent more than 100 requests within the preceding 60 seconds (the rejected
\* one included).
C29_RejectedOnlyAbove100InAMinute ==
  \A i \in 1..Len(recent) :
    (recent[i].limited /\ recent[i].age = 0)
      => Cardinality({j \in 1..Len(recent) : recent[j].age < RateTtl})
           > RateLimit


\* C30: a request rejected for invalid input (400) or for a bad credential
\* (401) touches no shared resource: the rate-limit counter is not
\* incremented and the usage ledger is not written (the handler keeps no
\* cache).
C30_RejectionTouchesNothing ==
  (/\ last.handled
   /\ \/ last.response.status \in {400, 401}
      \/ /\ MalformedBody(last.request.body)
         /\ last.response.status >= 400
         /\ last.calls = 0)
    => (~last.passed /\ ~last.okCall)


\* C31: a cache entry (any store entry that is neither a rate-limit counter
\* nor a usage ledger) is created or changed only by handling a cache-eligible
\* request whose upstream call succeeded; ineligible requests and failed
\* upstream calls never create or change one.
C31_CacheWrittenOnlyAfterEligibleSuccess ==
  [][\A key \in DOMAIN KV' \ StoreKeys :
        (key \notin DOMAIN KV \/ KV'[key] # KV[key])
          => (last'.handled /\ isCacheable(last'.request) /\ last'.okCall)]_vars

\* an ineligible request answered successfully and then an eligible request
\* whose upstream call failed, the store holding no cache entry
C31_Witness ==
  /\ prev.handled /\ ~isCacheable(prev.request)
  /\ prev.passed /\ prev.okCall
  /\ last.handled /\ isCacheable(last.request)
  /\ last.passed /\ last.calls = 1 /\ ~last.okCall
  /\ usageKey(month) \in DOMAIN KV
  /\ DOMAIN KV \subseteq StoreKeys


\* C32: a cached payload is never returned after its expiry time: a get that
\* finds an entry whose stored expiry is earlier than the current time
\* deletes the entry and returns null (a miss), and whatever a get returns
\* from an entry had not expired.
C32_ExpiredEntryDeletedAndMissed ==
  (browser.service = "cache" /\ browser.op.name = "get" /\ browser.op.found)
    => /\ browser.op.entry.expires < browser.op.at
            => /\ browser.op.returned = Null
               /\ \A i \in DOMAIN browser.cache :
                     browser.cache[i].key # browser.op.key
       /\ browser.op.returned # Null
            => browser.op.entry.expires >= browser.op.at

\* a get found an entry past its expiry, returned null and removed it
C32_Witness ==
  /\ browser.service = "cache"
  /\ browser.op.name = "get" /\ browser.op.found
  /\ browser.op.entry.expires < browser.op.at
  /\ browser.op.returned = Null
  /\ Len(browser.cache) = browser.op.sizeBefore - 1

\* C38 (as claimed): after any sequence of get, set and clear calls the cache
\* holds at most maxSize entries, and a set that arrives at a full cache
\* removes the entry inserted earliest.
C38_AtMostMaxSizeEarliestRemoved ==
  browser.service = "cache"
    => /\ Len(browser.cache) <= maxSize
       /\ (browser.op.name = "set" /\ browser.op.sizeBefore = maxSize)
            => /\ browser.op.removed
               /\ \A i \in DOMAIN browser.cache :
                     browser.cache[i].key = browser.op.firstBefore
                       => browser.op.key = browser.op.firstBefore


\* C33 (as claimed): a request is classified by the first matching class in
\* the order extraction, price-correction, cost-estimation, default, and the
\* call goes upstream with the more expensive model exactly when that class
\* is cost-estimation.
C33_ExpensiveModelIffCostEstimation ==
  (last.handled /\ last.calls = 1)
    => (last.sent.model = ModelSonnet
          <=> taskType(last.sent.user) = "costEstimation")


\* the sum of the totals a stored ledger entry keeps in one of its buckets
\* (models, taskTypes); an entry without the bucket keeps no such totals
RECURSIVE sumOver(_, _)
sumOver(totals, keys) ==
  IF keys = {} THEN 0
  ELSE LET key == CHOOSE k \in keys : TRUE
       IN  parseInt(totals[key]) + sumOver(totals, keys \ {key})

bucketSum(json, bucket) ==
  IF bucket \in DOMAIN json
  THEN sumOver(json[bucket], DOMAIN json[bucket]) ELSE 0

\* C34 (as claimed): in every stored ledger entry, also after lost updates
\* under concurrent writers, the per-model token totals sum to the entry's
\* cumulative token count, and so do the per-task-type token totals.
C34_BucketsSumToTotal ==
  \A m \in Months :
    KVhas(KV, usageKey(m))
      => /\ bucketSum(KV[usageKey(m)].value, "models")
              = parseInt(KV[usageKey(m)].value.totalTokens)
         /\ bucketSum(KV[usageKey(m)].value, "taskTypes")
              = parseInt(KV[usageKey(m)].value.totalTokens)


\* C37: SecureApiService.request never rejects: a call that has ended has
\* resolved, and when it failed (bad configuration, limiter refusal, bad URL
\* or oversized data, network error, non-success status, unparsable
\* response) it resolved to a response with success false, status 0 and an
\* error message.
C37_RequestNeverRejects ==
  browser.service = "clients" =>
    \A c \in Calls :
      browser.calls[c].client = ApiClient
        => /\ browser.calls[c].returned.state # "rejected"
           /\ browser.calls[c].pc = "done"
                => browser.calls[c].returned.state = "resolved"
           /\ (browser.calls[c].pc = "done"
                 /\ browser.calls[c].outcome = "error")
                => /\ browser.calls[c].returned.success = FALSE
                   /\ browser.calls[c].returned.status = 0
                   /\ browser.calls[c].returned.error # Null
           /\ (browser.calls[c].pc = "done"
                 /\ browser.calls[c].outcome = "result")
                => browser.calls[c].returned.success = TRUE

\* every attempt of a call failed, the last on an unparsable response after
\* a network error and a non-success status, and the call resolved to the
\* error response
C37_Witness ==
  /\ browser.service = "clients"
  /\ \E c \in Calls :
       /\ browser.calls[c].client = ApiClient
       /\ browser.calls[c].pc = "done"
       /\ browser.calls[c].seen
            = <<Seen(NetworkError), Seen(Response(500)), Seen(Unparsable)>>
       /\ browser.calls[c].returned
            = Resolved(FALSE, 0, "response parsing error")


\* C35 (as claimed): when a message sent at the feedback step is treated as
\* a new order and parses successfully, handling ends with the session at
\* awaiting_confirmation holding the parsed variants (the finally block
\* that resets the step and clears the form data has not run).
C35_NewOrderEndsAtConfirmation ==
  (browser.service = "chat" /\ browser.pc = "idle"
     /\ browser.handling = "new order parsed")
    => /\ browser.appStep = "awaiting_confirmation"
       /\ browser.formData = browser.parsed

\* C36 (as claimed): after the user confirms an order with yes the session
\* always eventually reaches awaiting_feedback_or_new_order with loading
\* switched off, whatever happens to each variant.
C36_YesLeadsToFeedback ==
  (browser.service = "chat" /\ browser.handling = "yes")
    ~> (browser.appStep = "awaiting_feedback_or_new_order"
        /\ ~browser.isLoading)

====
